---- MODULE Spec2Model ----
(***************************************************************************)
(* bevy_hooked: a hooks-based UI reconciler on top of a bevy World.        *)
(*                                                                         *)
(* The model follows src/src/internal.rs (Context: mount, unmount, diff,   *)
(* diff_children, process_messages), src/src/fctx.rs (Fctx: the hooks,     *)
(* Setter) and src/src/dom.rs (Dom: the calls made on the World).          *)
(*                                                                         *)
(* Indices are 1-based here (Vec index i of the source is i + 1).          *)
(* Option<T> is modelled with the value None for the empty case.           *)
(***************************************************************************)
EXTENDS Integers, Sequences, FiniteSets, TLC

VARIABLES
    tree,       \* Context.tree : MountedId -> Mounted
    prims,      \* World: the primitive entities (kind/payload, Parent, Children)
    entities,   \* World: the set of live entities
    nextId,     \* World: the next entity World::spawn() hands out
    queue,      \* the crossbeam channel tx/rx: EffectResolver messages in flight
    pc,         \* position of process_messages: "idle", "drain" or "render"
    roots,      \* process_messages: local HashSet roots
    flagged,    \* process_messages: local HashSet flagged
    drained,    \* history: targets drained since the current drain pass began
    mroots,     \* the MountedRootIds mount_root has handed to the host
    setters,    \* the Setters use_state has handed out: <<target, state, f>>
    fx,         \* history: per effect slot, setups run and cleanups invoked
    log,        \* history: the calls made by the most recent operation, in order
    panicked,   \* the thread has panicked (an unwrap() failed)
    sent,       \* history: the number of messages sent so far
    linked,     \* World: the components use_linked_state has inserted, per entity
                \* (written is history: a system wrote it since the last frame)
    disconnected, \* World: the components use_disconnected_state has inserted,
                \* per entity
    res_checks, \* Context.res_checks: the Vec<MountedId> of the resource type used
    res_changed, \* World: is_resource_changed() of that resource
    cmp_checks, \* Context.cmp_checks : MountedId -> the number of its checks
    applied,    \* history: the sequence numbers of the Setter messages applied
    rooted,     \* history: the nodes the current pump has inserted into roots
    polled,     \* history: the nodes the checks of the current pump have flagged
    rendered    \* history: the nodes re-rendered since the current pump began

vars == <<tree, prims, entities, nextId, queue, pc, roots, flagged, drained,
          mroots, setters, fx, log, panicked, sent, linked, cmp_checks, res_checks,
          disconnected, res_changed, rooted,
          applied,
          polled,
          rendered>>

----------------------------------------------------------------------------
(* Bounds of the model.                                                    *)

MaxSent == 3       \* messages the Setters send over a run

None == -1

----------------------------------------------------------------------------
(* Elements (internal.rs:130-143) and the constructors of the library.     *)

\* Element(ElementInner::Primitive(p, children), key)
PrimE(data, children, key) ==
    [kind |-> "Primitive", data |-> data, children |-> children,
     f |-> "", props |-> 0, memo |-> FALSE, key |-> key]

\* Element(ElementInner::Component(ComponentTemplate {f, props}), key)
CompE(f, props, memo, key) ==
    [kind |-> "Component", data |-> 0, children |-> <<>>,
     f |-> f, props |-> props, memo |-> memo, key |-> key]

node(children) == PrimE(0, children, None)
text(t) == PrimE(t, <<>>, None)
e(f, props) == CompE(f, props, FALSE, None)
memo_e(f, props) == CompE(f, props, TRUE, None)
with_key(el, key) == [el EXCEPT !.key = key]

----------------------------------------------------------------------------
(* The component functions of the application under analysis.  A component *)
(* function is a pure function of its props and of the values its hooks    *)
(* return; it is given here by the defaults of its use_state calls, the    *)
(* dependency keys of its use_effect and use_memo calls and the Elements   *)
(* it returns.                                                             *)

Values == {0, 1}

\* The child lists App chooses between, by the value of its state.
Layouts ==
    << << with_key(e("Item", 0), 1) >>,
       << with_key(e("Item", 0), 2), with_key(e("Item", 1), 1) >>,
       << e("Item", 0), e("Item", 0), with_key(text(7), 1) >>,
       << with_key(e("Leaf", 0), 1) >> >>

\* Panel and Cell are a second application: Panel renders a memoized Cell
\* and, when its state is 1, a text after it; the hooks Cell calls depend on
\* its state (CellModes).
\* Board and Gauge are a third one: Board renders a memoized Gauge while
\* its state is 0, and Gauge reads a resource with use_resource.
Funcs == {"App", "Item", "Leaf", "Panel", "Cell", "Board", "Gauge"}

\* the values of the state of Cell: with 0 it calls the hooks of its first
\* render, with 1 one use_effect more, with 2 no use_effect and no use_memo,
\* with 3 one use_memo more, with 4 one use_state more
CellModes == 0..4

\* the values default() yields for the use_state calls of f, in call order
StateDefaults(f, props) ==
    CASE f = "App"   -> <<1>>
      [] f = "Item"  -> <<1>>
      [] f = "Leaf"  -> <<0>>
      [] f = "Panel" -> <<0>>
      [] f = "Cell"  -> <<0>>
      [] f = "Board" -> <<0>>
      [] f = "Gauge" -> <<>>

\* the values a Setter of f may be asked to store in state slot ts
StateRange(f, ts) ==
    CASE f = "App"  -> 1..Len(Layouts)
      [] f = "Cell" -> CellModes
      [] OTHER      -> Values

\* the number of use_state calls f makes in an update render
StateCalls(f, props, sv) ==
    IF f = "Cell" /\ sv[1] = 4 THEN 2 ELSE Len(StateDefaults(f, props))

\* the eq_cache arguments of the use_effect calls of f, in call order
EffectKeys(f, props, sv) ==
    CASE f = "App"   -> <<>>
      [] f = "Item"  -> <<sv[1]>>
      [] f = "Leaf"  -> <<None>>
      [] f = "Panel" -> <<>>
      [] f = "Cell"  -> CASE sv[1] = 1 -> <<0, 0>>
                          [] sv[1] = 2 -> <<>>
                          [] OTHER     -> <<0>>
      [] OTHER       -> <<>>

\* the eq_cache arguments of the use_memo calls of f, in call order
MemoKeys(f, props, sv) ==
    CASE f = "App"   -> <<>>
      [] f = "Item"  -> <<sv[1]>>
      [] f = "Leaf"  -> <<>>
      [] f = "Panel" -> <<>>
      [] f = "Cell"  -> CASE sv[1] = 2 -> <<>>
                          [] sv[1] = 3 -> <<0, 0>>
                          [] OTHER     -> <<0>>
      [] OTHER       -> <<>>

\* the values f() yields for the use_linked_state calls of f, in call order
\* (each call is of a component type of its own)
LinkedDefaults(f, props) == IF f = "Cell" THEN <<0>> ELSE <<>>

\* the values f() yields for the use_disconnected_state calls of f, in call
\* order (each call is of a component type of its own)
DisconnectedDefaults(f, props) == IF f = "Gauge" THEN <<0>> ELSE <<>>

\* the number of use_resource calls of f in a render
ResourceCalls(f, props) == IF f = "Gauge" THEN 1 ELSE 0

\* the value the closure of the use_memo call computes from its key
MemoValue(f, eq_cache) == eq_cache + 10

\* the ComponentOutput of f; lv are the values use_linked_state returned
Output(f, props, sv, lv) ==
    CASE f = "App"   -> <<node(Layouts[sv[1]])>>
      [] f = "Item"  -> IF sv[1] = 0 THEN <<>> ELSE <<e("Leaf", props)>>
      [] f = "Leaf"  -> <<text(props + sv[1])>>
      [] f = "Panel" -> <<node(<<memo_e("Cell", 0)>>
                               \o IF sv[1] = 1 THEN <<text(5)>> ELSE <<>>)>>
      [] f = "Cell"  -> <<text(lv[1])>>
      [] f = "Board" -> <<node(IF sv[1] = 0 THEN <<memo_e("Gauge", 0)>> ELSE <<>>)>>
      [] f = "Gauge" -> <<text(9)>>

RootElements == {e("App", 0), e("Panel", 0), e("Board", 0)}

----------------------------------------------------------------------------
(* The state the operations of Context work on, threaded through them as   *)
(* one record: the tree, the World and the channel, with the history kept  *)
(* for the properties.  panic is set when an unwrap() or an assertion of   *)
(* the source fails; every operation after it is skipped.                  *)

Snapshot ==
    [tree |-> tree, prims |-> prims, entities |-> entities, nextId |-> nextId,
     setters |-> setters, fx |-> fx, linked |-> linked, cmp_checks |-> cmp_checks,
     res_checks |-> res_checks, disconnected |-> disconnected,
     log |-> <<>>, panic |-> FALSE]

Ev(op, id, a, b) == [op |-> op, id |-> id, a |-> a, b |-> b]

Note(st, op, id, a, b) == [st EXCEPT !.log = Append(@, Ev(op, id, a, b))]

Panic(st) == [st EXCEPT !.panic = TRUE]

\* `let x = <call>; F(x)`: the value of a call, bound for what follows it
Then(x, F(_)) == F(x)

\* World::spawn(): a fresh entity
spawn(st) ==
    [st |-> [st EXCEPT !.nextId = @ + 1, !.entities = @ \cup {st.nextId}],
     id |-> st.nextId]

\* World::despawn(entity): the entity goes with the components it holds
despawn(st, entity) ==
    [st EXCEPT !.entities = @ \ {entity},
               !.linked = [x \in DOMAIN st.linked \ {entity} |-> st.linked[x]],
               !.disconnected = [x \in DOMAIN st.disconnected \ {entity} |->
                                    st.disconnected[x]]]

\* f with the entry k removed (HashMap::remove)
Without(f, k) == [x \in DOMAIN f \ {k} |-> f[x]]

\* f with the entry k -> v inserted or overwritten (HashMap::insert)
With(f, k, v) == [x \in DOMAIN f \cup {k} |-> IF x = k THEN v ELSE f[x]]

EmptyMap == [x \in {} |-> 0]

\* seq with x inserted so that it becomes element number i + 1 (Vec::insert(i, x))
InsertAt(seq, i, x) == SubSeq(seq, 1, i) \o <<x>> \o SubSeq(seq, i + 1, Len(seq))

\* seq without the elements equal to x (iter().filter(|e| *e != x).collect())
Filter(seq, x) == SelectSeq(seq, LAMBDA y : y # x)

\* the history of one effect slot: setups run and cleanups invoked so far
FxOf(h, k) == IF k \in DOMAIN h THEN h[k] ELSE [ran |-> 0, inv |-> 0]

----------------------------------------------------------------------------
(* Dom (dom.rs): the calls on the World that create, update and remove the *)
(* entities of the primitives.                                             *)

\* Dom::mount_as_child: spawn the entity, insert it among the children of
\* the parent at the cursor (BuildWorldChildren::insert_children: the
\* Children component is created when the parent has none, else the entity
\* is inserted at the index, which must not exceed the length), cursor += 1
mount_as_child(st, primitive, cursor, parent) ==
    Then(spawn(st), LAMBDA s :
    Then(Note([s.st EXCEPT !.prims = With(@, s.id,
                  [data |-> primitive, parent |-> parent, children |-> <<>>,
                   hasChildren |-> FALSE])],
              "mount_as_child", s.id, parent, cursor), LAMBDA s1 :
         IF parent = None
         THEN [st |-> s1, id |-> s.id, cursor |-> cursor + 1]
         ELSE IF ~ s1.prims[parent].hasChildren
         THEN [st |-> [s1 EXCEPT !.prims[parent].children = <<s.id>>,
                                 !.prims[parent].hasChildren = TRUE],
               id |-> s.id, cursor |-> cursor + 1]
         ELSE IF cursor > Len(s1.prims[parent].children)
         THEN [st |-> Panic(s1), id |-> s.id, cursor |-> cursor]
         ELSE [st |-> [s1 EXCEPT !.prims[parent].children = InsertAt(@, cursor, s.id)],
               id |-> s.id, cursor |-> cursor + 1]))

\* Dom::diff_primitive: the bundle of the old kind is removed and the bundle
\* of the new primitive inserted, whatever the two are; cursor += 1
diff_primitive(st, old, new, cursor) ==
    [st |-> Note([st EXCEPT !.prims[old].data = new], "diff_primitive", old,
                 st.prims[old].data, new),
     cursor |-> cursor + 1]

\* Dom::remove: detach from the Children of the Parent, despawn
remove(st, id) ==
    LET parent == st.prims[id].parent
        p1 == IF parent # None /\ parent \in DOMAIN st.prims
              THEN [st.prims EXCEPT ![parent].children = Filter(@, id)]
              ELSE st.prims
        s1 == [st EXCEPT !.prims = Without(p1, id)]
    IN  Note(despawn(s1, id), "remove", id, parent, 0)

----------------------------------------------------------------------------
(* Mounted nodes (internal.rs:145-187).                                    *)

\* Option<ParentPrimitiveData>::None
NoParent == [id |-> None, cursor |-> 0]

\* Some(ParentPrimitiveData {id, cursor}), or None when there is no parent
ParentData(id, cursor) == IF id = None THEN NoParent ELSE [id |-> id, cursor |-> cursor]

\* Mounted {inner: MountedInner::Primitive(prim), children, parent}
\* out is history: the child Elements the node was last mounted or diffed with
MountedPrimitive(prim, unkeyed, keyed, parent, out) ==
    [kind |-> "Primitive", prim |-> prim, f |-> "", props |-> 0, memo |-> FALSE,
     state |-> <<>>, memos |-> <<>>, effects |-> <<>>, out |-> out,
     unkeyed |-> unkeyed, keyed |-> keyed, parent |-> parent]

\* Mounted {inner: MountedInner::Component(Component {f, props, state, memos,
\* effects}), children, parent}; out is history: the Elements of the last render
MountedComponent(c, unkeyed, keyed, parent) ==
    [kind |-> "Component", prim |-> None, f |-> c.f, props |-> c.props,
     memo |-> c.memo, state |-> c.state, memos |-> c.memos,
     effects |-> c.effects, out |-> c.out,
     unkeyed |-> unkeyed, keyed |-> keyed, parent |-> parent]

\* the keys of a HashMap<Key, MountedId>, ascending
RECURSIVE SortedKeys(_)
SortedKeys(S) ==
    IF S = {} THEN <<>>
    ELSE LET m == CHOOSE x \in S : \A y \in S : x <= y
         IN  <<m>> \o SortedKeys(S \ {m})

\* keyed.values(): the order of a HashMap is unspecified; the ascending order
\* of the keys is taken, the resulting tree and World do not depend on it
KeyedValues(keyed) ==
    LET ks == SortedKeys(DOMAIN keyed) IN [i \in 1..Len(ks) |-> keyed[ks[i]]]

\* &Children as an iterator: unkeyed.iter().chain(keyed.values())
ChildIds(n) == n.unkeyed \o KeyedValues(n.keyed)

----------------------------------------------------------------------------
(* Fctx (fctx.rs): the hooks.                                              *)

\* Fctx::use_state in a first render, once per call: the defaults are
\* pushed and a Setter {target: id, state: index} is handed out per slot
use_state_first(st, id, f, defaults) ==
    [st EXCEPT !.setters = @ \cup {<<id, i, f>> : i \in 1..Len(defaults)}]

\* Fctx::use_state on update, for the call number sel: the slot is looked up
\* with states.get(sel).unwrap()
use_state(st, state, sel) == IF sel > Len(state) THEN Panic(st) ELSE st

RECURSIVE use_states(_, _, _, _)
\* the use_state calls of one update render, in call order
use_states(st, state, calls, sel) ==
    IF sel > calls \/ st.panic THEN st
    ELSE use_states(use_state(st, state, sel), state, calls, sel + 1)

\* Fctx::use_linked_state in a first render, once per call: a check is
\* pushed to cmp_checks[id], and when the Fctx is dropped the value is
\* inserted into the entity of the node, which marks it changed
use_linked_state_first(st, id, defaults) ==
    IF defaults = <<>> THEN st
    ELSE [st EXCEPT
             !.linked = With(@, id, [i \in 1..Len(defaults) |->
                                        [val |-> defaults[i], changed |-> TRUE,
                                         written |-> FALSE]]),
             !.cmp_checks = With(@, id, Len(defaults))]

\* use_disconnected_state calling f and inserting its value in an update
\* render as well
use_disconnected_state_again(st, id, defaults) ==
    IF defaults = <<>> THEN st
    ELSE Note([st EXCEPT !.disconnected = With(@, id, defaults)],
              "disconnected_init", id, Len(defaults), 0)

\* Fctx::use_disconnected_state in a first render, once per call: f is
\* called, and when the Fctx is dropped its value is inserted into the
\* entity of the node
use_disconnected_state_first(st, id, defaults) ==
    IF defaults = <<>> THEN st
    ELSE Note([st EXCEPT !.disconnected = With(@, id, defaults)],
              "disconnected_init", id, Len(defaults), 0)

\* Fctx::use_disconnected_state on update: nothing is done
use_disconnected_state(st, id, defaults) == st

\* Fctx::use_resource in a first render, for `calls` calls: the node is
\* pushed to the list of the resource type once per call; in an update
\* render res_checks is None and the resource is only read
RECURSIVE use_resource_first(_, _, _)
use_resource_first(st, id, calls) ==
    IF calls = 0 THEN st
    ELSE use_resource_first([st EXCEPT !.res_checks = Append(@, id)], id, calls - 1)

\* Fctx::use_linked_state on update, for `calls` calls: the component is read
\* from the entity of the node with get::<T>().unwrap()
use_linked_state(st, id, calls) ==
    IF calls > 0 /\ (id \notin DOMAIN st.linked \/ Len(st.linked[id]) < calls)
    THEN Panic(st)
    ELSE st

\* the values the use_linked_state calls of an update render return: the
\* ones the World holds now
LinkedValues(st, id, defaults) ==
    IF id \in DOMAIN st.linked /\ Len(st.linked[id]) >= Len(defaults)
    THEN [i \in 1..Len(defaults) |-> st.linked[id][i].val]
    ELSE defaults

\* Fctx::use_effect in a first render: push the pending setup
use_effect_first(keys) ==
    [i \in 1..Len(keys) |-> [eq_cache |-> keys[i], f |-> "Effect"]]

\* use_effect_changed with the comparison of the keys left out
use_effect_always(effects, sel, eq_cache) == TRUE

\* Fctx::use_effect on update: the condition under which the slot is replaced
use_effect_changed(effects, sel, eq_cache) ==
    IF sel > Len(effects) THEN TRUE
    ELSE IF effects[sel].eq_cache = None THEN TRUE
    ELSE IF eq_cache = None THEN TRUE
    ELSE effects[sel].eq_cache # eq_cache

\* use_effect replacing the slot without calling the stored destructor
use_effect_keep(st, id, effects, sel, eq_cache) ==
    LET s0 == Note(st, "use_effect", id, sel, eq_cache) IN
    IF ~ use_effect_changed(effects, sel, eq_cache)
    THEN [st |-> s0, effects |-> effects]
    ELSE IF sel > Len(effects)
    THEN [st |-> Panic(s0), effects |-> effects]
    ELSE [st |-> s0,
          effects |-> [effects EXCEPT ![sel] =
                          [eq_cache |-> eq_cache, f |-> "Effect"]]]

\* Fctx::use_effect on update, for the call number sel of the render of id:
\* when the key differs the stored destructor is called and the slot is
\* replaced by the new, pending, setup.  Returns [st, effects].
use_effect(st, id, effects, sel, eq_cache) ==
    LET s0 == Note(st, "use_effect", id, sel, eq_cache) IN
    IF ~ use_effect_changed(effects, sel, eq_cache)
    THEN [st |-> s0, effects |-> effects]
    ELSE IF sel > Len(effects)
    THEN [st |-> Panic(s0), effects |-> effects]
    ELSE LET s1 == IF effects[sel].f = "Destructor"
                   THEN Note([s0 EXCEPT !.fx = With(@, <<id, sel>>,
                                  [FxOf(@, <<id, sel>>) EXCEPT !.inv = @ + 1])],
                             "cleanup", id, sel, 0)
                   ELSE s0
         IN  [st |-> s1,
              effects |-> [effects EXCEPT ![sel] =
                              [eq_cache |-> eq_cache, f |-> "Effect"]]]

RECURSIVE use_effects(_, _, _, _, _)
\* the use_effect calls of one update render, in call order
use_effects(st, id, effects, keys, sel) ==
    IF sel > Len(keys) \/ st.panic THEN [st |-> st, effects |-> effects]
    ELSE Then(use_effect(st, id, effects, sel, keys[sel]), LAMBDA r :
              use_effects(r.st, id, r.effects, keys, sel + 1))

\* Fctx::use_memo in a first render: compute and push, per call
RECURSIVE use_memo_first(_, _, _, _, _)
use_memo_first(st, id, f, keys, sel) ==
    IF sel > Len(keys) THEN [st |-> st, memos |-> <<>>]
    ELSE Then(use_memo_first(Note(st, "compute", id, sel, keys[sel]), id, f,
                             keys, sel + 1), LAMBDA r :
              [st |-> r.st,
               memos |-> <<[eq_cache |-> keys[sel], val |-> MemoValue(f, keys[sel])]>>
                         \o r.memos])

\* use_memo computing the value anew whatever the stored key is
use_memo_always(st, id, f, memos, sel, eq_cache) ==
    LET s0 == Note(st, "use_memo", id, sel, eq_cache) IN
    IF sel > Len(memos) THEN [st |-> Panic(s0), memos |-> memos]
    ELSE [st |-> Note(s0, "compute", id, sel, eq_cache),
          memos |-> [memos EXCEPT ![sel] =
                        [eq_cache |-> eq_cache, val |-> MemoValue(f, eq_cache)]]]

\* use_memo pushing a new Memo when the render calls it more often than
\* the first render did
use_memo_push(st, id, f, memos, sel, eq_cache) ==
    LET s0 == Note(st, "use_memo", id, sel, eq_cache) IN
    IF sel > Len(memos)
    THEN [st |-> Note(s0, "compute", id, sel, eq_cache),
          memos |-> Append(memos, [eq_cache |-> eq_cache,
                                   val |-> MemoValue(f, eq_cache)])]
    ELSE IF memos[sel].eq_cache # eq_cache
    THEN [st |-> Note(s0, "compute", id, sel, eq_cache),
          memos |-> [memos EXCEPT ![sel] =
                        [eq_cache |-> eq_cache, val |-> MemoValue(f, eq_cache)]]]
    ELSE [st |-> s0, memos |-> memos]

\* Fctx::use_memo on update, for the call number sel: the stored Memo is
\* taken; when its key differs from eq_cache the value is computed anew and
\* stored with the new key.  Returns [st, memos].
use_memo(st, id, f, memos, sel, eq_cache) ==
    LET s0 == Note(st, "use_memo", id, sel, eq_cache) IN
    IF sel > Len(memos) THEN [st |-> Panic(s0), memos |-> memos]
    ELSE IF memos[sel].eq_cache # eq_cache
    THEN [st |-> Note(s0, "compute", id, sel, eq_cache),
          memos |-> [memos EXCEPT ![sel] =
                        [eq_cache |-> eq_cache, val |-> MemoValue(f, eq_cache)]]]
    ELSE [st |-> s0, memos |-> memos]

RECURSIVE use_memos(_, _, _, _, _, _)
\* the use_memo calls of one update render, in call order
use_memos(st, id, f, memos, keys, sel) ==
    IF sel > Len(keys) \/ st.panic THEN [st |-> st, memos |-> memos]
    ELSE Then(use_memo(st, id, f, memos, sel, keys[sel]), LAMBDA r :
              use_memos(r.st, id, f, r.memos, keys, sel + 1))

\* mount, lines 387-395: every pending setup of the new component is run and
\* its slot now holds the destructor the setup returned
RECURSIVE run_effects(_, _, _, _)
run_effects(st, id, effects, i) ==
    IF i > Len(effects) THEN [st |-> st, effects |-> effects]
    ELSE IF effects[i].f = "Effect"
    THEN run_effects(
             Note([st EXCEPT !.fx = With(@, <<id, i>>,
                       [FxOf(@, <<id, i>>) EXCEPT !.ran = @ + 1])],
                  "setup", id, i, 0),
             id, [effects EXCEPT ![i].f = "Destructor"], i + 1)
    ELSE run_effects(st, id, effects, i + 1)

----------------------------------------------------------------------------
(* Context::mount and Context::unmount (internal.rs:313-439).              *)

RECURSIVE mount(_, _, _, _), mount_each(_, _, _, _, _, _, _)

\* the loops of mount over the child Elements (lines 329-339 and 375-386):
\* each child is mounted under the attachment `parent` at the cursor the Dom
\* has reached.  Returns [st, cursor, unkeyed, keyed].
mount_each(st, elems, i, cursor, parent, unkeyed, keyed) ==
    IF i > Len(elems) \/ st.panic
    THEN [st |-> st, cursor |-> cursor, unkeyed |-> unkeyed, keyed |-> keyed]
    ELSE Then(mount(st, elems[i], cursor, ParentData(parent, cursor)), LAMBDA m :
              IF elems[i].key # None
              THEN mount_each(m.st, elems, i + 1, m.cursor, parent, unkeyed,
                              With(keyed, elems[i].key, m.id))
              ELSE mount_each(m.st, elems, i + 1, m.cursor, parent,
                              Append(unkeyed, m.id), keyed))

\* mount running the pending setups of a component before its children are
\* mounted
mount_setup_first(st, element, cursor, parent) ==
    IF st.panic THEN [st |-> st, id |-> None, cursor |-> cursor]
    ELSE IF element.kind = "Primitive"
    THEN Then(mount_as_child(st, element.data, cursor, parent.id), LAMBDA m :
         Then(mount_each(m.st, element.children, 1, 0, m.id, <<>>, EmptyMap),
              LAMBDA kids :
         Then(spawn(kids.st), LAMBDA s :
              [st |-> [s.st EXCEPT !.tree = With(@, s.id,
                          MountedPrimitive(m.id, kids.unkeyed, kids.keyed,
                                           ParentData(parent.id, m.cursor),
                                           element.children))],
               id |-> s.id, cursor |-> m.cursor])))
    ELSE Then(spawn(st), LAMBDA s :
         LET state == StateDefaults(element.f, element.props)
             pending == use_effect_first(EffectKeys(element.f, element.props, state))
         IN  Then(use_memo_first(
                      Note(use_state_first(s.st, s.id, element.f, state),
                           "render_first", s.id, element.props, 0),
                      s.id, element.f, MemoKeys(element.f, element.props, state), 1),
                  LAMBDA mm :
             Then(Output(element.f, element.props, state,
                         LinkedDefaults(element.f, element.props)), LAMBDA out :
             Then(run_effects(use_linked_state_first(
                                  use_resource_first(
                                      use_disconnected_state_first(mm.st, s.id,
                                          DisconnectedDefaults(element.f, element.props)),
                                      s.id, ResourceCalls(element.f, element.props)),
                                  s.id, LinkedDefaults(element.f, element.props)),
                              s.id, pending, 1), LAMBDA r0 :
             Then(mount_each(r0.st, out, 1, cursor, parent.id, <<>>, EmptyMap),
                  LAMBDA kids :
             Then([st |-> kids.st, effects |-> r0.effects], LAMBDA r :
                  [st |-> [r.st EXCEPT !.tree = With(@, s.id,
                              MountedComponent(
                                  [f |-> element.f, props |-> element.props,
                                   memo |-> element.memo, state |-> state,
                                   memos |-> mm.memos, effects |-> r.effects,
                                   out |-> out],
                                  kids.unkeyed, kids.keyed, parent))],
                   id |-> s.id, cursor |-> kids.cursor]))))))

\* Context::mount(element, dom, parent), dom.cursor being `cursor`.
\* Returns [st, id, cursor].
mount(st, element, cursor, parent) ==
    IF st.panic THEN [st |-> st, id |-> None, cursor |-> cursor]
    ELSE IF element.kind = "Primitive"
    THEN Then(mount_as_child(st, element.data, cursor, parent.id), LAMBDA m :
         Then(mount_each(m.st, element.children, 1, 0, m.id, <<>>, EmptyMap),
              LAMBDA kids :
         Then(spawn(kids.st), LAMBDA s :
              [st |-> [s.st EXCEPT !.tree = With(@, s.id,
                          MountedPrimitive(m.id, kids.unkeyed, kids.keyed,
                                           ParentData(parent.id, m.cursor),
                                           element.children))],
               id |-> s.id, cursor |-> m.cursor])))
    ELSE Then(spawn(st), LAMBDA s :
         LET state == StateDefaults(element.f, element.props)
             pending == use_effect_first(EffectKeys(element.f, element.props, state))
         IN  Then(use_memo_first(
                      Note(use_state_first(s.st, s.id, element.f, state),
                           "render_first", s.id, element.props, 0),
                      s.id, element.f, MemoKeys(element.f, element.props, state), 1),
                  LAMBDA mm :
             Then(Output(element.f, element.props, state,
                         LinkedDefaults(element.f, element.props)), LAMBDA out :
             Then(mount_each(use_linked_state_first(
                                 use_resource_first(
                                     use_disconnected_state_first(mm.st, s.id,
                                         DisconnectedDefaults(element.f, element.props)),
                                     s.id, ResourceCalls(element.f, element.props)),
                                 s.id, LinkedDefaults(element.f, element.props)),
                             out, 1, cursor, parent.id, <<>>, EmptyMap),
                  LAMBDA kids :
             Then(run_effects(kids.st, s.id, pending, 1), LAMBDA r :
                  [st |-> [r.st EXCEPT !.tree = With(@, s.id,
                              MountedComponent(
                                  [f |-> element.f, props |-> element.props,
                                   memo |-> element.memo, state |-> state,
                                   memos |-> mm.memos, effects |-> r.effects,
                                   out |-> out],
                                  kids.unkeyed, kids.keyed, parent))],
                   id |-> s.id, cursor |-> kids.cursor])))))

RECURSIVE unmount(_, _), unmount_each(_, _, _), run_destructors(_, _, _, _)

\* run_destructors dropping the effects without calling their destructors
run_destructors_none(st, id, effects, i) == st

\* unmount, lines 429-434: the destructor of every effect that has one is called
run_destructors(st, id, effects, i) ==
    IF i > Len(effects) THEN st
    ELSE IF effects[i].f = "Destructor"
    THEN run_destructors(
             Note([st EXCEPT !.fx = With(@, <<id, i>>,
                       [FxOf(@, <<id, i>>) EXCEPT !.inv = @ + 1])],
                  "cleanup", id, i, 0),
             id, effects, i + 1)
    ELSE run_destructors(st, id, effects, i + 1)

\* the loops that unmount a list of nodes (lines 421-423, 485-487, 545-554)
unmount_each(st, ids, i) ==
    IF i > Len(ids) \/ st.panic THEN st
    ELSE unmount_each(unmount(st, ids[i]), ids, i + 1)

\* unmount running the destructors of the node and releasing its handle
\* before its children are unmounted
unmount_own_first(st, this) ==
    IF st.panic THEN st
    ELSE IF this \notin DOMAIN st.tree THEN Panic(st)
    ELSE LET n == st.tree[this]
             s0 == [st EXCEPT !.tree = Without(@, this)]
         IN  Then(IF n.kind = "Primitive"
                  THEN remove(s0, n.prim)
                  ELSE [despawn(run_destructors(s0, this, n.effects, 1), this)
                           EXCEPT !.cmp_checks = Without(@, this)],
                  LAMBDA s1 :
                  Then(unmount_each(s1, ChildIds(n), 1), LAMBDA s2 :
                       IF s2.panic THEN s2
                       ELSE Note(s2, "unmounted", this, 0, 0)))

\* unmount leaving the children of the node in the tree
unmount_alone(st, this) ==
    IF st.panic THEN st
    ELSE IF this \notin DOMAIN st.tree THEN Panic(st)
    ELSE LET n == st.tree[this]
             s1 == [st EXCEPT !.tree = Without(@, this)]
         IN  IF n.kind = "Primitive"
             THEN Note(remove(s1, n.prim), "unmounted", this, 0, 0)
             ELSE Note([despawn(run_destructors(s1, this, n.effects, 1), this)
                           EXCEPT !.cmp_checks = Without(@, this)],
                       "unmounted", this, 0, 0)

\* Context::unmount(this, dom)
unmount(st, this) ==
    IF st.panic THEN st
    ELSE IF this \notin DOMAIN st.tree THEN Panic(st)
    ELSE LET n == st.tree[this]
         IN  Then(unmount_each([st EXCEPT !.tree = Without(@, this)], ChildIds(n), 1),
                  LAMBDA s1 :
             IF s1.panic THEN s1
             ELSE IF n.kind = "Primitive"
             THEN Note(remove(s1, n.prim), "unmounted", this, 0, 0)
             ELSE Note([despawn(run_destructors(s1, this, n.effects, 1), this)
                           EXCEPT !.cmp_checks = Without(@, this)],
                       "unmounted", this, 0, 0))

----------------------------------------------------------------------------
(* Context::diff, Context::diff_children and Component::update             *)
(* (internal.rs:74-94, 441-555).                                           *)

\* use_memoized answering false for every function
use_memoized_never(old, new) == FALSE

\* DynComponentFunc::use_memoized of the function the node was mounted with:
\* false for a plain component function (line 645), the equality of the
\* stored and the new props for a MemoizableComponentFunc (line 664)
use_memoized(old, new) == IF old.memo THEN old.props = new.props ELSE FALSE

\* Front and last element of a Vec, for Vec::pop
Front(seq) == SubSeq(seq, 1, Len(seq) - 1)
Last(seq) == seq[Len(seq)]

RECURSIVE diff(_, _, _, _), diff_children(_, _, _, _, _, _),
          diff_each(_, _, _, _, _, _, _, _, _), update(_, _, _, _)

\* Component::update(id, children, ctx, dom, parent): the component function
\* is called with the props stored in the component and an Fctx in update
\* mode, then its output is diffed against the children.
\* Returns [st, n, cursor], n being the node with the new slots and children.
update(st, id, n, cursor) ==
    Then(Output(n.f, n.props, n.state,
                LinkedValues(st, id, LinkedDefaults(n.f, n.props))), LAMBDA out :
    Then(use_effects(
             use_states(
                 use_linked_state(
                     use_disconnected_state(
                         Note(Note(st, "render_update", id, n.props,
                                   IF out = n.out THEN 1 ELSE 0),
                              "hook_calls", id,
                              <<StateCalls(n.f, n.props, n.state),
                                Len(EffectKeys(n.f, n.props, n.state)),
                                Len(MemoKeys(n.f, n.props, n.state))>>,
                              <<Len(n.state), Len(n.effects), Len(n.memos)>>),
                         id, DisconnectedDefaults(n.f, n.props)),
                     id, Len(LinkedDefaults(n.f, n.props))),
                 n.state, StateCalls(n.f, n.props, n.state), 1),
             id, n.effects, EffectKeys(n.f, n.props, n.state), 1), LAMBDA r :
    Then(use_memos(r.st, id, n.f, n.memos, MemoKeys(n.f, n.props, n.state), 1),
         LAMBDA mm :
    Then(diff_children(mm.st, n.unkeyed, n.keyed, out, cursor, n.parent.id),
         LAMBDA dc :
         [st |-> dc.st,
          n |-> [n EXCEPT !.effects = r.effects, !.memos = mm.memos, !.out = out,
                          !.unkeyed = dc.unkeyed, !.keyed = dc.keyed],
          cursor |-> dc.cursor]))))

\* diff taking the function identities of two components for different
\* whatever they are: the old component is unmounted, the new one mounted
diff_remount(st, id, other, cursor) ==
    IF st.panic THEN [st |-> st, id |-> id, cursor |-> cursor]
    ELSE IF id \notin DOMAIN st.tree THEN [st |-> Panic(st), id |-> id, cursor |-> cursor]
    ELSE
    LET n == st.tree[id]
        s0 == [st EXCEPT !.tree = Without(@, id)]
    IN  IF n.kind = "Primitive" /\ other.kind = "Primitive"
        THEN Then(diff_primitive(s0, n.prim, other.data, cursor), LAMBDA d :
             Then(diff_children(d.st, n.unkeyed, n.keyed, other.children, 0, n.prim),
                  LAMBDA dc :
                  [st |-> [dc.st EXCEPT !.tree = With(@, id,
                              [n EXCEPT !.unkeyed = dc.unkeyed, !.keyed = dc.keyed,
                                        !.out = other.children])],
                   id |-> id, cursor |-> d.cursor]))
        ELSE mount(unmount(st, id), other, cursor, n.parent)

\* diff mounting the new Element of a mismatching pair before it unmounts
\* the old node
diff_mount_first(st, id, other, cursor) ==
    IF st.panic THEN [st |-> st, id |-> id, cursor |-> cursor]
    ELSE IF id \notin DOMAIN st.tree THEN [st |-> Panic(st), id |-> id, cursor |-> cursor]
    ELSE
    LET n == st.tree[id]
        sn == Note(Note(st, "diff_pair", id, <<n.kind, n.f>>, <<other.kind, other.f>>),
                   "diff_elem", id, other.memo, other.props)
        s0 == [sn EXCEPT !.tree = Without(@, id)]
        replaced(m) == [m EXCEPT !.st = Note(@, "replaced", id, m.id, 0)]
    IN  IF n.kind = "Primitive" /\ other.kind = "Primitive"
        THEN Then(diff_primitive(s0, n.prim, other.data, cursor), LAMBDA d :
             Then(diff_children(d.st, n.unkeyed, n.keyed, other.children, 0, n.prim),
                  LAMBDA dc :
                  [st |-> [dc.st EXCEPT !.tree = With(@, id,
                              [n EXCEPT !.unkeyed = dc.unkeyed, !.keyed = dc.keyed,
                                        !.out = other.children])],
                   id |-> id, cursor |-> d.cursor]))
        ELSE IF n.kind = "Component" /\ other.kind = "Component" /\ n.f = other.f
        THEN IF ~ use_memoized(n, other)
             THEN Then(update(Note(s0, "diff", id, other.props, 0), id, n, cursor),
                       LAMBDA u :
                       [st |-> [u.st EXCEPT !.tree = With(@, id, u.n)],
                        id |-> id, cursor |-> u.cursor])
             ELSE [st |-> sn, id |-> id, cursor |-> cursor]
        ELSE replaced(Then(mount(sn, other, cursor, n.parent), LAMBDA m :
                           [m EXCEPT !.st = unmount(@, id)]))

\* Context::diff(id, other, dom).  Returns [st, id, cursor]: id is the node
\* now standing for the Element (*id of the source after the call).
diff(st, id, other, cursor) ==
    IF st.panic THEN [st |-> st, id |-> id, cursor |-> cursor]
    ELSE IF id \notin DOMAIN st.tree THEN [st |-> Panic(st), id |-> id, cursor |-> cursor]
    ELSE
    LET n == st.tree[id]
        \* history: the pair the match of line 447 is given, and whether the
        \* Element is memoized and with which props
        sn == Note(Note(st, "diff_pair", id, <<n.kind, n.f>>, <<other.kind, other.f>>),
                   "diff_elem", id, other.memo, other.props)
        s0 == [sn EXCEPT !.tree = Without(@, id)]
        \* history: *id = self.mount(..)
        replaced(m) == [m EXCEPT !.st = Note(@, "replaced", id, m.id, 0)]
    IN  IF n.kind = "Primitive" /\ other.kind = "Primitive"
        THEN Then(diff_primitive(s0, n.prim, other.data, cursor), LAMBDA d :
             Then(diff_children(d.st, n.unkeyed, n.keyed, other.children, 0, n.prim),
                  LAMBDA dc :
                  [st |-> [dc.st EXCEPT !.tree = With(@, id,
                              [n EXCEPT !.unkeyed = dc.unkeyed, !.keyed = dc.keyed,
                                        !.out = other.children])],
                   id |-> id, cursor |-> d.cursor]))
        ELSE IF n.kind = "Component" /\ other.kind = "Component" /\ n.f = other.f
        THEN IF ~ use_memoized(n, other)
             THEN Then(update(Note(s0, "diff", id, other.props, 0), id, n, cursor),
                       LAMBDA u :
                       [st |-> [u.st EXCEPT !.tree = With(@, id, u.n)],
                        id |-> id, cursor |-> u.cursor])
             ELSE [st |-> sn, id |-> id, cursor |-> cursor]
        ELSE IF n.kind = "Component" /\ other.kind = "Component"
        THEN replaced(mount(unmount([unmount_each(s0, n.unkeyed, 1) EXCEPT
                                        !.tree = With(@, id, [n EXCEPT !.unkeyed = <<>>])],
                                    id),
                            other, cursor, n.parent))
        ELSE replaced(mount(unmount(sn, id), other, cursor, n.parent))

\* the loop of diff_children over the new Elements (lines 524-544): a keyed
\* Element is diffed against the old node of its key, an unkeyed one against
\* the node old.unkeyed.pop() yields; with none left it is mounted.
\* Returns [st, cursor, old_unkeyed, old_keyed, unkeyed, keyed].
diff_each(st, new, i, cursor, parent, old_unkeyed, old_keyed, unkeyed, keyed) ==
    IF i > Len(new) \/ st.panic
    THEN [st |-> st, cursor |-> cursor, old_unkeyed |-> old_unkeyed,
          old_keyed |-> old_keyed, unkeyed |-> unkeyed, keyed |-> keyed]
    ELSE
    LET element == new[i]
        data == ParentData(parent, cursor)
    IN  IF element.key # None
        THEN IF element.key \in DOMAIN old_keyed
             THEN Then(diff(st, old_keyed[element.key], element, cursor), LAMBDA d :
                       diff_each(d.st, new, i + 1, d.cursor, parent, old_unkeyed,
                                 Without(old_keyed, element.key), unkeyed,
                                 With(keyed, element.key, d.id)))
             ELSE Then(mount(st, element, cursor, data), LAMBDA m :
                       diff_each(m.st, new, i + 1, m.cursor, parent, old_unkeyed,
                                 old_keyed, unkeyed, With(keyed, element.key, m.id)))
        ELSE IF old_unkeyed # <<>>
             THEN Then(diff(st, Last(old_unkeyed), element, cursor), LAMBDA d :
                       diff_each(d.st, new, i + 1, d.cursor, parent,
                                 Front(old_unkeyed), old_keyed,
                                 Append(unkeyed, d.id), keyed))
             ELSE Then(mount(st, element, cursor, data), LAMBDA m :
                       diff_each(m.st, new, i + 1, m.cursor, parent, old_unkeyed,
                                 old_keyed, Append(unkeyed, m.id), keyed))

\* Context::diff_children(old, new, dom, parent): after the loop the old
\* nodes no Element was matched with are unmounted.
\* Returns [st, cursor, unkeyed, keyed], the new Children.
diff_children(st, old_unkeyed, old_keyed, new, cursor, parent) ==
    Then(diff_each(st, new, 1, cursor, parent, old_unkeyed, old_keyed, <<>>, EmptyMap),
         LAMBDA r :
         [st |-> unmount_each(r.st, r.old_unkeyed \o KeyedValues(r.old_keyed), 1),
          cursor |-> r.cursor, unkeyed |-> r.unkeyed, keyed |-> r.keyed])

----------------------------------------------------------------------------
(* The operations of Context as actions.                                   *)

Init ==
    /\ tree = EmptyMap
    /\ prims = EmptyMap
    /\ entities = {}
    /\ nextId = 1
    /\ queue = <<>>
    /\ pc = "idle"
    /\ roots = {}
    /\ flagged = {}
    /\ drained = {}
    /\ mroots = {}
    /\ setters = {}
    /\ fx = EmptyMap
    /\ log = <<>>
    /\ panicked = FALSE
    /\ sent = 0
    /\ linked = EmptyMap
    /\ cmp_checks = EmptyMap
    /\ res_checks = <<>>
    /\ disconnected = EmptyMap
    /\ res_changed = FALSE
    /\ polled = {}
    /\ rooted = {}
    /\ applied = <<>>
    /\ rendered = {}

\* The outcome st of an operation becomes the state; after a panic nothing
\* of the program runs any more.
Commit(st) ==
    /\ log' = st.log
    /\ IF st.panic
       THEN /\ panicked' = TRUE
            /\ UNCHANGED <<tree, prims, entities, nextId, setters, fx, linked,
                           cmp_checks, res_checks, disconnected>>
       ELSE /\ panicked' = FALSE
            /\ tree' = st.tree
            /\ prims' = st.prims
            /\ entities' = st.entities
            /\ nextId' = st.nextId
            /\ setters' = st.setters
            /\ fx' = st.fx
            /\ linked' = st.linked
            /\ cmp_checks' = st.cmp_checks
            /\ res_checks' = st.res_checks
            /\ disconnected' = st.disconnected

\* Context::mount_root(e, dom), called with Dom {world, cursor: 0}; the
\* plugin mounts one tree (lib.rs:42)
MountRoot(el) ==
    /\ ~ panicked
    /\ pc = "idle"
    /\ mroots = {} /\ nextId = 1
    /\ Then(mount(Snapshot, el, 0, NoParent), LAMBDA m :
            /\ Commit(m.st)
            /\ mroots' = IF m.st.panic THEN mroots ELSE mroots \cup {m.id})
    /\ UNCHANGED <<res_changed, queue, pc, roots, flagged, drained, sent, polled, rooted, applied, rendered>>

\* Context::unmount_root(id, dom)
UnmountRoot(id) ==
    /\ ~ panicked
    /\ pc = "idle"
    /\ id \in mroots
    /\ Then(unmount(Snapshot, id), LAMBDA s :
            /\ Commit(s)
            /\ mroots' = IF s.panic THEN mroots ELSE mroots \ {id})
    /\ UNCHANGED <<res_changed, queue, pc, roots, flagged, drained, sent, polled, rooted, applied, rendered>>

\* Setter::set storing the value at the call site as well
Set_now(target, state, val) ==
    /\ ~ panicked
    /\ sent < MaxSent
    /\ sent' = sent + 1
    /\ queue' = Append(queue, [target_component |-> target, target_state |-> state,
                               val |-> val, seq |-> sent + 1])
    /\ tree' = IF target \in DOMAIN tree /\ state <= Len(tree[target].state)
               THEN [tree EXCEPT ![target].state[state] = val]
               ELSE tree
    /\ log' = <<>>
    /\ UNCHANGED <<res_changed, prims, entities, nextId, pc, roots, flagged, drained,
                   mroots, setters, fx, panicked, linked, cmp_checks, res_checks, disconnected, polled, rooted, applied,
                   rendered>>

\* Setter::set putting its message in front of the messages in flight
Set_front(target, state, val) ==
    /\ ~ panicked
    /\ sent < MaxSent
    /\ sent' = sent + 1
    /\ queue' = <<[target_component |-> target, target_state |-> state,
                   val |-> val, seq |-> sent + 1]>> \o queue
    /\ log' = <<>>
    /\ UNCHANGED <<res_changed, tree, prims, entities, nextId, pc, roots, flagged, drained,
                   mroots, setters, fx, panicked, linked, cmp_checks, res_checks, disconnected, polled, rooted,
                   applied, rendered>>

\* Setter::set(f), from whatever thread holds the Setter: the message is
\* sent, nothing else happens.  The closure f stores the value val; seq is
\* history, the number of the message among the messages Setters have sent.
Set(target, state, val) ==
    /\ ~ panicked
    /\ sent < MaxSent
    /\ sent' = sent + 1
    /\ queue' = Append(queue, [target_component |-> target, target_state |-> state,
                               val |-> val, seq |-> sent + 1])
    /\ log' = <<>>
    /\ UNCHANGED <<res_changed, tree, prims, entities, nextId, pc, roots, flagged, drained,
                   mroots, setters, fx, panicked, linked, cmp_checks, res_checks, disconnected, polled, rooted, applied,
                   rendered>>

\* the nodes one of whose checks answers true (lines 228-241): is_changed()
\* of a component use_linked_state has inserted
Changed ==
    {id \in DOMAIN cmp_checks \cap DOMAIN linked :
        \E i \in 1..Len(linked[id]) : linked[id][i].changed}

\* the flag messages sent for them (lines 231-237); a HashMap is iterated in
\* an unspecified order, the ascending one is taken
PollMessages ==
    LET ids == SortedKeys(Changed)
    IN  [i \in 1..Len(ids) |->
            [target_component |-> ids[i], target_state |-> None, val |-> 0,
             seq |-> 0]]

\* the flag messages sent when the check of the resource type answers true
\* (lines 215-227): one for every entry of its list
ResMessages ==
    IF res_changed
    THEN [i \in 1..Len(res_checks) |->
             [target_component |-> res_checks[i], target_state |-> None, val |-> 0,
              seq |-> 0]]
    ELSE <<>>

\* process_messages sending a flag message for every node of cmp_checks,
\* whatever its checks answer
AllMessages ==
    LET ids == SortedKeys(DOMAIN cmp_checks \cap DOMAIN linked)
    IN  [i \in 1..Len(ids) |->
            [target_component |-> ids[i], target_state |-> None, val |-> 0,
             seq |-> 0]]

PumpStart_unchecked ==
    /\ ~ panicked
    /\ pc = "idle"
    /\ panicked' = (\E id \in DOMAIN cmp_checks : id \notin DOMAIN linked)
    /\ queue' = IF panicked' THEN queue ELSE queue \o ResMessages \o AllMessages
    /\ pc' = IF panicked' \/ queue' = <<>> THEN "idle" ELSE "drain"
    /\ rooted' = {}
    /\ applied' = applied
    /\ polled' = IF panicked' THEN {}
                 ELSE Changed \cup {ResMessages[i].target_component :
                                       i \in DOMAIN ResMessages}
    /\ rendered' = {}
    /\ roots' = {}
    /\ flagged' = {}
    /\ drained' = {}
    /\ log' = <<Ev("process_messages", None, 0, 0)>>
    /\ UNCHANGED <<res_changed, tree, prims, entities, nextId, mroots, setters, fx, sent, linked,
                   cmp_checks, res_checks, disconnected>>

\* process_messages, lines 214-244: the checks are polled, a message is sent
\* for every node a check flags, roots and flagged are created, and the loop
\* is entered unless the channel is empty.  A check of cmp_checks unwraps the
\* component of its entity.  The call is noted in the log.
PumpStart ==
    /\ ~ panicked
    /\ pc = "idle"
    /\ panicked' = (\E id \in DOMAIN cmp_checks : id \notin DOMAIN linked)
    /\ queue' = IF panicked' THEN queue ELSE queue \o ResMessages \o PollMessages
    /\ pc' = IF panicked' \/ queue' = <<>> THEN "idle" ELSE "drain"
    /\ rooted' = {}
    /\ applied' = applied
    /\ polled' = IF panicked' THEN {}
                 ELSE Changed \cup {ResMessages[i].target_component :
                                       i \in DOMAIN ResMessages}
    /\ rendered' = {}
    /\ roots' = {}
    /\ flagged' = {}
    /\ drained' = {}
    /\ log' = <<Ev("process_messages", None, 0, 0)>>
    /\ UNCHANGED <<res_changed, tree, prims, entities, nextId, mroots, setters, fx, sent, linked,
                   cmp_checks, res_checks, disconnected>>

RECURSIVE recursive(_, _, _, _), recursive_each(_, _, _, _, _)

\* the loop of fn recursive over the children of element (lines 270-276)
recursive_each(ids, i, rs, fl, t) ==
    IF i > Len(ids) THEN [roots |-> rs, flagged |-> fl]
    ELSE LET cid == ids[i]
         IN  IF cid \in fl
             THEN recursive_each(ids, i + 1, rs \ {cid}, fl, t)
             ELSE LET r == recursive(cid, rs \ {cid}, fl \cup {cid}, t)
                  IN  recursive_each(ids, i + 1, r.roots, r.flagged, t)

\* recursive leaving the children of element as they are
recursive_flat(element, rs, fl, t) == [roots |-> rs, flagged |-> fl]

\* recursive stopping at the children of element
recursive_shallow(element, rs, fl, t) ==
    LET cs == {ChildIds(t[element])[i] : i \in DOMAIN ChildIds(t[element])}
    IN  [roots |-> rs \ cs, flagged |-> fl \cup cs]

\* fn recursive(element, roots, flagged, tree); returns [roots, flagged]
recursive(element, rs, fl, t) == recursive_each(ChildIds(t[element]), 1, rs, fl, t)

\* Drain dropping the mutation of a message whose target is flagged
Drain_unless_flagged ==
    /\ ~ panicked
    /\ pc = "drain"
    /\ queue # <<>>
    /\ LET resolver == Head(queue)
           id == resolver.target_component
           ts == resolver.target_state
       IN  /\ queue' = Tail(queue)
           /\ log' = <<>>
           /\ IF \/ id \notin DOMAIN tree
                 \/ tree[id].kind # "Component"
                 \/ (ts # None /\ ts > Len(tree[id].state))
              THEN /\ panicked' = TRUE
                   /\ UNCHANGED <<tree, roots, flagged, drained, rooted, applied>>
              ELSE /\ panicked' = FALSE
                   /\ tree' = IF ts # None /\ id \notin flagged
                              THEN [tree EXCEPT ![id].state[ts] = resolver.val]
                              ELSE tree
                   /\ drained' = drained \cup {id}
                   /\ applied' = IF ts # None THEN Append(applied, resolver.seq)
                                 ELSE applied
                   /\ IF id \in flagged
                      THEN UNCHANGED <<roots, flagged, rooted>>
                      ELSE LET r == recursive(id, roots \cup {id}, flagged, tree)
                           IN  /\ roots' = r.roots
                               /\ flagged' = r.flagged
                               /\ rooted' = rooted \cup {id}
    /\ UNCHANGED <<res_changed, prims, entities, nextId, pc, mroots, setters, fx, sent, linked,
                   cmp_checks, res_checks, disconnected, polled, rendered>>

\* process_messages, lines 245-281: one resolver taken from rx.try_iter()
Drain ==
    /\ ~ panicked
    /\ pc = "drain"
    /\ queue # <<>>
    /\ LET resolver == Head(queue)
           id == resolver.target_component
           ts == resolver.target_state
       IN  /\ queue' = Tail(queue)
           /\ log' = <<>>
           /\ IF \/ id \notin DOMAIN tree
                 \/ tree[id].kind # "Component"
                 \/ (ts # None /\ ts > Len(tree[id].state))
              THEN /\ panicked' = TRUE
                   /\ UNCHANGED <<tree, roots, flagged, drained, rooted, applied>>
              ELSE /\ panicked' = FALSE
                   /\ tree' = IF ts # None
                              THEN [tree EXCEPT ![id].state[ts] = resolver.val]
                              ELSE tree
                   /\ drained' = drained \cup {id}
                   /\ applied' = IF ts # None THEN Append(applied, resolver.seq)
                                 ELSE applied
                   /\ IF id \in flagged
                      THEN UNCHANGED <<roots, flagged, rooted>>
                      ELSE LET r == recursive(id, roots \cup {id}, flagged, tree)
                           IN  /\ roots' = r.roots
                               /\ flagged' = r.flagged
                               /\ rooted' = rooted \cup {id}
    /\ UNCHANGED <<res_changed, prims, entities, nextId, pc, mroots, setters, fx, sent, linked,
                   cmp_checks, res_checks, disconnected, polled, rendered>>

\* process_messages, lines 245 and 282: try_iter() finds the channel empty
DrainEnd ==
    /\ ~ panicked
    /\ pc = "drain"
    /\ queue = <<>>
    /\ flagged' = {}
    /\ pc' = "render"
    /\ log' = <<>>
    /\ UNCHANGED <<res_changed, tree, prims, entities, nextId, queue, roots, drained, mroots,
                   setters, fx, panicked, sent, linked, cmp_checks, res_checks, disconnected, polled,
                   rendered, rooted, applied>>

\* process_messages, lines 283-305: one root of roots.drain() is re-rendered
Render(rerender_root) ==
    /\ ~ panicked
    /\ pc = "render"
    /\ rerender_root \in roots
    /\ roots' = roots \ {rerender_root}
    /\ IF rerender_root \notin DOMAIN tree
       THEN Commit(Panic(Snapshot)) /\ UNCHANGED rendered
       ELSE Then(update([Snapshot EXCEPT !.tree = Without(@, rerender_root)],
                        rerender_root, tree[rerender_root],
                        tree[rerender_root].parent.cursor), LAMBDA u :
                 /\ Commit([u.st EXCEPT !.tree = With(@, rerender_root, u.n)])
                 /\ rendered' = rendered \cup
                        {u.st.log[i].id : i \in {j \in DOMAIN u.st.log :
                                            u.st.log[j].op = "render_update"}})
    /\ UNCHANGED <<res_changed, queue, pc, flagged, drained, mroots, sent, polled, rooted, applied>>

\* the loop going on after the roots are drained whether or not the channel
\* holds messages
RenderEnd_again ==
    /\ ~ panicked
    /\ pc = "render"
    /\ roots = {}
    /\ pc' = "drain"
    /\ drained' = {}
    /\ applied' = applied
    /\ rooted' = IF queue = <<>> THEN {} ELSE rooted
    /\ polled' = IF queue = <<>> THEN {} ELSE polled
    /\ rendered' = IF queue = <<>> THEN {} ELSE rendered
    /\ log' = <<>>
    /\ UNCHANGED <<res_changed, tree, prims, entities, nextId, queue, roots, flagged, mroots,
                   setters, fx, panicked, sent, linked, cmp_checks, res_checks, disconnected>>

\* process_messages, line 244, after the roots are drained: the loop goes
\* on while the channel holds messages
RenderEnd ==
    /\ ~ panicked
    /\ pc = "render"
    /\ roots = {}
    /\ pc' = IF queue = <<>> THEN "idle" ELSE "drain"
    /\ drained' = {}
    /\ applied' = applied
    /\ rooted' = IF queue = <<>> THEN {} ELSE rooted
    /\ polled' = IF queue = <<>> THEN {} ELSE polled
    /\ rendered' = IF queue = <<>> THEN {} ELSE rendered
    /\ log' = <<>>
    /\ UNCHANGED <<res_changed, tree, prims, entities, nextId, queue, roots, flagged, mroots,
                   setters, fx, panicked, sent, linked, cmp_checks, res_checks, disconnected>>

\* A system of the host writes the component number i that use_linked_state
\* has inserted into the entity of a node (ui.rs:44-68); process_messages is
\* an exclusive system, no other system runs while it does.
WriteLinked(id, i, val) ==
    /\ ~ panicked
    /\ pc = "idle"
    /\ id \in DOMAIN linked
    /\ i \in 1..Len(linked[id])
    /\ linked' = [linked EXCEPT ![id][i] =
                     [val |-> val, changed |-> TRUE, written |-> TRUE]]
    /\ log' = <<>>
    /\ UNCHANGED <<res_changed, tree, prims, entities, nextId, queue, pc, roots, flagged, drained,
                   mroots, setters, fx, panicked, sent, cmp_checks, res_checks, disconnected, polled,
                   rendered, rooted, applied>>

\* A system of the host writes the component number i that
\* use_disconnected_state has inserted into the entity of a node
\* (ui.rs:44-68, TimeSpent).
WriteDisconnected(id, i, val) ==
    /\ ~ panicked
    /\ pc = "idle"
    /\ id \in DOMAIN disconnected
    /\ i \in 1..Len(disconnected[id])
    /\ disconnected[id][i] # val
    /\ disconnected' = [disconnected EXCEPT ![id][i] = val]
    /\ log' = <<>>
    /\ UNCHANGED <<tree, prims, entities, nextId, queue, pc, roots, flagged, drained,
                   mroots, setters, fx, panicked, sent, linked, cmp_checks, res_checks,
                   res_changed, polled, rendered, rooted, applied>>

\* A system of the host writes the resource the components read with
\* use_resource.  A write made before the first use_resource call is seen
\* by the library as a write made right after it is, and is taken then.
WriteResource ==
    /\ ~ panicked
    /\ pc = "idle"
    /\ ~ res_changed
    /\ res_checks # <<>>
    /\ res_changed' = TRUE
    /\ log' = <<>>
    /\ UNCHANGED <<tree, prims, entities, nextId, queue, pc, roots, flagged, drained,
                   mroots, setters, fx, panicked, sent, linked, cmp_checks, res_checks, disconnected,
                   polled, rendered, rooted, applied>>

\* The host ends a frame (World::clear_trackers): is_changed() and
\* is_resource_changed() answer false until the next write.
ClearTrackers ==
    /\ ~ panicked
    /\ pc = "idle"
    /\ Changed # {} \/ res_changed
    /\ res_changed' = FALSE
    /\ linked' = [id \in DOMAIN linked |->
                     [i \in 1..Len(linked[id]) |->
                         [linked[id][i] EXCEPT !.changed = FALSE,
                                               !.written = FALSE]]]
    /\ log' = <<>>
    /\ UNCHANGED <<tree, prims, entities, nextId, queue, pc, roots, flagged, drained,
                   mroots, setters, fx, panicked, sent, cmp_checks, res_checks, disconnected, polled,
                   rendered, rooted, applied>>

Next ==
    \/ \E el \in RootElements : MountRoot(el)
    \/ \E id \in mroots : UnmountRoot(id)
    \/ \E s \in setters : \E val \in StateRange(s[3], s[2]) : Set(s[1], s[2], val)
    \/ PumpStart
    \/ Drain
    \/ DrainEnd
    \/ \E r \in roots : Render(r)
    \/ RenderEnd
    \/ \E id \in DOMAIN linked : \E val \in Values : WriteLinked(id, 1, val)
    \/ \E id \in DOMAIN disconnected : \E val \in Values : WriteDisconnected(id, 1, val)
    \/ WriteResource
    \/ ClearTrackers

Spec == Init /\ [][Next]_vars

----------------------------------------------------------------------------
(* Notions the properties are stated with.                                 *)

RECURSIVE Descendants(_, _)
\* the nodes below id in the mounted tree t (id itself excluded)
Descendants(t, id) ==
    IF id \notin DOMAIN t THEN {}
    ELSE LET cs == {ChildIds(t[id])[i] : i \in 1..Len(ChildIds(t[id]))}
         IN  cs \cup UNION {Descendants(t, c) : c \in cs}

\* the nodes of the trees the host holds a root of
MountedNodes == mroots \cup UNION {Descendants(tree, r) : r \in mroots}

\* the targets of the messages drained in the current pass that are mounted
Targets == drained \cap DOMAIN tree

\* D lies below another target of the current pass
Covered(D) == \E P \in Targets : D \in Descendants(tree, P)

LogOps == {log[i].op : i \in DOMAIN log}

\* the events of the log with the operation op
Events(op) == {i \in DOMAIN log : log[i].op = op}

\* no node is rendered twice by one operation
RenderOnce ==
    \A i, j \in Events("render_update") \cup Events("render_first") :
        log[i].id = log[j].id => i = j

BridgeOps == {"mount_as_child", "diff_primitive", "remove"}

----------------------------------------------------------------------------
(* C1: a message whose target is no longer mounted when it is drained is   *)
(* dropped: the drain step does not panic, changes neither the tree nor    *)
(* roots, and the pump goes on with the next message.                      *)
(* The source unwraps the lookup of the target (internal.rs:246-249).      *)
C1_UnmountedTargetDropped ==
    [][ ( /\ pc = "drain"
          /\ queue # <<>>
          /\ Head(queue).target_component \notin DOMAIN tree
          /\ queue' = Tail(queue) )
        => ( /\ ~ panicked'
             /\ tree' = tree
             /\ roots' = roots
             /\ pc' = "drain" ) ]_vars

----------------------------------------------------------------------------
(* C2, as claimed: when one drain pass drains a message for a component P  *)
(* and one for a descendant D of P, then after the drain P is in roots and *)
(* D is not, and the render pass renders no node twice.                    *)
(* It fails for P when a message for an ancestor of P is drained as well.  *)
C2_ParentIsRoot ==
    /\ pc = "drain" =>
          \A P, D \in Targets :
              D \in Descendants(tree, P) => (P \in roots /\ D \notin roots)
    /\ RenderOnce

(* C2, amended: D is in roots neither after the drain nor during the       *)
(* render pass; P is in roots after the drain unless a message for an      *)
(* ancestor of P was drained in the same pass; one operation renders no    *)
(* node twice.                                                             *)
C2_DescendantNeverRoot ==
    /\ pc \in {"drain", "render"} =>
          \A D \in Targets : Covered(D) => D \notin roots
    /\ pc = "drain" =>
          \A P \in Targets : P \in roots \/ Covered(P)
    /\ RenderOnce

\* a drain pass has drained a message for a root P and one for a node below it
C2_Witness ==
    /\ pc = "drain"
    /\ queue = <<>>
    /\ \E P, D \in Targets : D \in Descendants(tree, P) /\ P \in roots

----------------------------------------------------------------------------
(* C3: when an update render calls use_effect with a changed key, the new  *)
(* setup is run as part of the update: once the operation has finished,    *)
(* every effect slot use_effect was called for holds an active cleanup,    *)
(* none a pending setup.                                                   *)
(* The source stores the setup (fctx.rs:139-142) and only mount runs       *)
(* pending setups (internal.rs:387-395).                                   *)
C3_SetupRunOnUpdate ==
    \A i \in Events("use_effect") :
        (log[i].id \in DOMAIN tree /\ log[i].a <= Len(tree[log[i].id].effects))
            => tree[log[i].id].effects[log[i].a].f = "Destructor"

----------------------------------------------------------------------------
(* C4: per effect slot, the cleanup a setup produced is invoked before a   *)
(* replacement can start and before the unmount of the node completes: a   *)
(* slot never has two uninvoked cleanups, a mounted slot holding a         *)
(* destructor has exactly one uninvoked cleanup and one holding a pending  *)
(* setup has none, and no cleanup of a node is invoked after the node has  *)
(* been unmounted.                                                         *)
C4_CleanupBeforeReplacement ==
    /\ \A k \in DOMAIN fx :
          /\ fx[k].ran - fx[k].inv \in {0, 1}
          /\ (k[1] \in DOMAIN tree /\ k[2] <= Len(tree[k[1]].effects)) =>
                IF tree[k[1]].effects[k[2]].f = "Destructor"
                THEN fx[k].ran = fx[k].inv + 1
                ELSE fx[k].ran = fx[k].inv
    /\ \A i \in Events("unmounted") : \A j \in Events("cleanup") :
          log[i].id = log[j].id => j < i
    /\ \A i \in Events("unmounted") : \A k \in DOMAIN fx :
          k[1] = log[i].id => fx[k].ran = fx[k].inv

\* an update has replaced an effect whose cleanup was active: the cleanup
\* was invoked and the slot holds the replacement
C4_Witness ==
    \E i \in Events("use_effect") : \E j \in Events("cleanup") :
        /\ j = i + 1
        /\ log[j].id = log[i].id /\ log[j].a = log[i].a
        /\ log[i].id \in DOMAIN tree
        /\ tree[log[i].id].effects[log[i].a].f = "Effect"

----------------------------------------------------------------------------
(* C5: when an update render calls use_effect with a key that is present   *)
(* and equal to the key stored in the slot, neither the cleanup nor the    *)
(* setup is invoked and the slot is left as it was.                        *)
C5_EqualKeyNoRerun ==
    [][ \A i \in DOMAIN log' :
          ( /\ log'[i].op = "use_effect"
            /\ log'[i].b # None
            /\ log'[i].id \in DOMAIN tree
            /\ log'[i].id \in DOMAIN tree'
            /\ log'[i].a <= Len(tree[log'[i].id].effects)
            /\ tree[log'[i].id].effects[log'[i].a].eq_cache = log'[i].b )
          => ( /\ tree'[log'[i].id].effects[log'[i].a]
                     = tree[log'[i].id].effects[log'[i].a]
               /\ FxOf(fx', <<log'[i].id, log'[i].a>>)
                     = FxOf(fx, <<log'[i].id, log'[i].a>>) ) ]_vars

\* use_effect was called on update with the key the slot holds, and the
\* slot holds its destructor
C5_Witness ==
    \E i \in Events("use_effect") :
        /\ log[i].b # None
        /\ log[i].id \in DOMAIN tree
        /\ tree[log[i].id].effects[log[i].a].eq_cache = log[i].b
        /\ tree[log[i].id].effects[log[i].a].f = "Destructor"
        /\ \A j \in Events("cleanup") : log[j].id # log[i].id

----------------------------------------------------------------------------
(* C6: every cleanup a setup has produced is invoked exactly once: per      *)
(* slot never more cleanups are invoked than setups ran, at most one       *)
(* cleanup is outstanding, and for every node that is no longer part of a  *)
(* mounted tree none is.                                                   *)
C6_CleanupExactlyOnce ==
    \A k \in DOMAIN fx :
        /\ fx[k].inv <= fx[k].ran
        /\ fx[k].ran - fx[k].inv <= 1
        /\ k[1] \notin MountedNodes => fx[k].inv = fx[k].ran

\* a diff has unmounted a component below a root that stays mounted, and
\* its cleanup was invoked
C6_Witness ==
    /\ mroots # {}
    /\ "render_update" \in LogOps
    /\ \E i \in Events("unmounted") :
          /\ <<log[i].id, 1>> \in DOMAIN fx
          /\ fx[<<log[i].id, 1>>].inv = 1
          /\ \E j \in Events("cleanup") : j < i /\ log[j].id = log[i].id

----------------------------------------------------------------------------
(* C7: a keyed component child whose key and function identity are in the  *)
(* child list of its parent before and after a diff_children keeps its     *)
(* NodeId and its slots: its state is the same, its memo and effect arrays *)
(* keep their lengths, it is not rendered in first-render mode, and a      *)
(* cleanup of it runs only where use_effect replaced the effect.           *)
C7_KeyedChildKept ==
    [][ \A p \in DOMAIN tree \cap DOMAIN tree' :
          \A k \in DOMAIN tree[p].keyed \cap DOMAIN tree'[p].keyed :
            LET o == tree[p].keyed[k]
                n == tree'[p].keyed[k]
            IN  ( /\ "render_update" \in {log'[i].op : i \in DOMAIN log'}
                  /\ tree[o].kind = "Component"
                  /\ tree'[n].kind = "Component"
                  /\ tree'[n].f = tree[o].f )
                => ( /\ n = o
                     /\ tree'[n].state = tree[o].state
                     /\ Len(tree'[n].memos) = Len(tree[o].memos)
                     /\ Len(tree'[n].effects) = Len(tree[o].effects)
                     /\ \A i \in DOMAIN log' :
                           log'[i].op = "render_first" => log'[i].id # o
                     /\ \A sl \in 1..Len(tree[o].effects) :
                           \/ FxOf(fx', <<o, sl>>) = FxOf(fx, <<o, sl>>)
                           \/ /\ tree[o].effects[sl].f = "Destructor"
                              /\ tree'[o].effects[sl].f = "Effect" ) ]_vars

\* a diff_children has mounted a child for a new key 2 in front of the
\* child of key 1, which was diffed in place
C7_Witness ==
    \E p \in DOMAIN tree :
        /\ DOMAIN tree[p].keyed = {1, 2}
        /\ \E i \in Events("diff") : log[i].id = tree[p].keyed[1]
        /\ \E j \in Events("render_first") : log[j].id = tree[p].keyed[2]

----------------------------------------------------------------------------
(* C8: when diff re-renders a component of matching function identity,     *)
(* the render function is called with the props of the new Element and the *)
(* node stores them afterwards.                                            *)
(* The source calls the function with the props stored at mount and never  *)
(* replaces them (internal.rs:82-83, 474-482).                             *)
C8_NewPropsUsed ==
    \A i \in Events("diff") :
        /\ i + 1 \in Events("render_update")
        /\ log[i + 1].id = log[i].id
        /\ log[i + 1].a = log[i].a
        /\ log[i].id \in DOMAIN tree => tree[log[i].id].props = log[i].a

----------------------------------------------------------------------------
(* C9: unkeyed children are matched by position: an unkeyed component      *)
(* child that is at the same position of the unkeyed list of its parent    *)
(* before and after a step, with the same function identity, is the same   *)
(* node.                                                                   *)
(* The source takes the old nodes from the tail of the list                *)
(* (internal.rs:537) while the new Elements are taken from the head.       *)
C9_UnkeyedPositional ==
    [][ \A p \in DOMAIN tree \cap DOMAIN tree' :
          \A k \in 1..Len(tree[p].unkeyed) :
            k <= Len(tree'[p].unkeyed) =>
              LET o == tree[p].unkeyed[k]
                  n == tree'[p].unkeyed[k]
              IN  ( /\ tree[o].kind = "Component"
                    /\ tree'[n].kind = "Component"
                    /\ tree'[n].f = tree[o].f )
                  => n = o ]_vars

----------------------------------------------------------------------------
(* C10: an operation that re-renders components whose Elements are the     *)
(* ones of their last render, and mounts nothing, makes no call on the     *)
(* Bridge.                                                                 *)
(* The source calls Dom::diff_primitive for every Primitive/Primitive pair *)
(* (internal.rs:449), which replaces the bundle whatever it holds.         *)
C10_RediffSilent ==
    ( /\ Events("render_update") # {}
      /\ Events("render_first") = {}
      /\ \A i \in Events("render_update") : log[i].b = 1 )
    => LogOps \cap BridgeOps = {}

----------------------------------------------------------------------------
(* C11: an update render in which the component calls another number of    *)
(* use_state, use_effect or use_memo hooks than it has slots from its      *)
(* first render is rejected: the operation panics, it never completes as a *)
(* normal render.                                                          *)
(* The source fails only when a hook is called for a slot that does not    *)
(* exist (the unwrap() of fctx.rs:95, 131, 170); with fewer calls the      *)
(* selectors are never compared with the lengths of the slot arrays.       *)
C11_HookOrderRejected ==
    \A i \in Events("hook_calls") : log[i].a # log[i].b => panicked

----------------------------------------------------------------------------
(* C12: when an update render calls use_memo for a slot with the key the   *)
(* slot holds, the compute function is not called and the slot keeps its   *)
(* Memo; with another key the compute function is called exactly once and  *)
(* the slot holds the new key and the value computed from it.              *)
C12_MemoRecomputedOnKeyChange ==
    [][ \A i \in DOMAIN log' :
          ( /\ log'[i].op = "use_memo"
            /\ ~ panicked'
            /\ log'[i].id \in DOMAIN tree
            /\ log'[i].id \in DOMAIN tree'
            /\ log'[i].a <= Len(tree[log'[i].id].memos) )
          => LET id == log'[i].id
                 sel == log'[i].a
                 computed == {j \in DOMAIN log' :
                                 /\ log'[j].op = "compute"
                                 /\ log'[j].id = id
                                 /\ log'[j].a = sel}
             IN  IF tree[id].memos[sel].eq_cache = log'[i].b
                 THEN /\ computed = {}
                      /\ tree'[id].memos[sel] = tree[id].memos[sel]
                 ELSE /\ Cardinality(computed) = 1
                      /\ tree'[id].memos[sel] =
                            [eq_cache |-> log'[i].b,
                             val |-> MemoValue(tree[id].f, log'[i].b)] ]_vars

\* an update render has called use_memo with another key than the slot
\* held: the value was computed and the slot holds the new key
C12_Witness ==
    \E i \in Events("use_memo") :
        /\ i + 1 \in Events("compute")
        /\ log[i + 1].id = log[i].id
        /\ ~ panicked
        /\ log[i].id \in DOMAIN tree
        /\ tree[log[i].id].memos[log[i].a].eq_cache = log[i].b

----------------------------------------------------------------------------
(* C13: when the component use_linked_state has inserted for a mounted     *)
(* node was written and process_messages is called, the check of the node  *)
(* flags it, and when process_messages returns the node, if still mounted, *)
(* has been re-rendered in this call and the Elements of its last render   *)
(* are the ones its function returns for the value the World holds.        *)
(* A flagged node below another root of the same pass is left to the       *)
(* re-render of that root (internal.rs:270-276), and diff does not render  *)
(* a memoized component whose props are equal (internal.rs:473).           *)
C13_LinkedChangeRendered ==
    [][ (pc = "render" /\ pc' = "idle")
        => \A id \in polled \cap DOMAIN tree \cap DOMAIN linked :
              (\E i \in 1..Len(linked[id]) : linked[id][i].written) =>
              /\ id \in rendered
              /\ tree[id].out =
                    Output(tree[id].f, tree[id].props, tree[id].state,
                           LinkedValues(Snapshot, id,
                               LinkedDefaults(tree[id].f, tree[id].props))) ]_vars

----------------------------------------------------------------------------
(* C14: calling a Setter only sends a message, the slot keeps its value;   *)
(* the value of a state slot of a mounted component changes only in the    *)
(* step that drains a message addressed to that slot, and becomes the      *)
(* value of that message; no render, mount, diff or unmount changes it.    *)
C14_StateChangesOnlyInDrain ==
    [][ /\ sent' # sent => tree' = tree
        /\ \A id \in DOMAIN tree \cap DOMAIN tree' :
              ( /\ tree[id].kind = "Component"
                /\ tree'[id].kind = "Component"
                /\ tree'[id].state # tree[id].state )
              => /\ pc = "drain"
                 /\ queue # <<>>
                 /\ queue' = Tail(queue)
                 /\ Head(queue).target_component = id
                 /\ Head(queue).target_state # None
                 /\ tree'[id].state =
                       [tree[id].state EXCEPT ![Head(queue).target_state] =
                                                  Head(queue).val] ]_vars

\* a render pass is under way while a sent message waits with a value its
\* slot does not hold
C14_Witness ==
    /\ pc = "render"
    /\ roots # {}
    /\ \E i \in DOMAIN queue :
          /\ queue[i].target_component \in DOMAIN tree
          /\ queue[i].target_state # None
          /\ queue[i].target_state <= Len(tree[queue[i].target_component].state)
          /\ tree[queue[i].target_component].state[queue[i].target_state]
                # queue[i].val

----------------------------------------------------------------------------
(* C15: when process_messages returns, the queue is empty and no dirty     *)
(* root is left un-rendered: roots is empty and every node the pump has    *)
(* put in roots, and that is still mounted, has been re-rendered.          *)
(* A node put in roots is taken out again when a message for an ancestor   *)
(* is drained after its own (internal.rs:270-276); a memoized Element      *)
(* with equal props then keeps the ancestor's render from reaching it      *)
(* (internal.rs:473-475).                                                  *)
C15_QuiescentAtReturn ==
    [][ (pc = "render" /\ pc' = "idle")
        => /\ queue' = <<>>
           /\ roots' = {}
           /\ \A id \in rooted \cap DOMAIN tree : id \in rendered ]_vars

----------------------------------------------------------------------------
(* C16: unmount is depth-first, children before parent.  For every node    *)
(* an operation unmounts, each of its descendants is unmounted by the same *)
(* operation, and whatever is done for a descendant (its cleanups, the     *)
(* release of its handle, the end of its unmount) comes before the node's  *)
(* own cleanups and the release of its own handle; when the operation      *)
(* ends, neither the node nor a descendant is in the tree.                 *)

\* the events of the log lg that are the node's own, the node being n:
\* its cleanups, or the release of its handle
OwnEvents(lg, id, n) ==
    {i \in DOMAIN lg :
        \/ lg[i].op = "cleanup" /\ lg[i].id = id /\ n.kind = "Component"
        \/ lg[i].op = "remove" /\ lg[i].id = n.prim /\ n.kind = "Primitive"}

\* the events of lg that end the unmount of id
Unmounted(lg, id) == {i \in DOMAIN lg : lg[i].op = "unmounted" /\ lg[i].id = id}

C16_UnmountChildrenFirst ==
    [][ ~ panicked' =>
        \A id \in DOMAIN tree : Unmounted(log', id) # {} =>
          /\ id \notin DOMAIN tree'
          /\ \A i \in OwnEvents(log', id, tree[id]) : \A k \in Unmounted(log', id) : i < k
          /\ tree[id].kind = "Primitive" => OwnEvents(log', id, tree[id]) # {}
          /\ \A s \in DOMAIN tree[id].effects :
                tree[id].effects[s].f = "Destructor" =>
                   \E i \in OwnEvents(log', id, tree[id]) : log'[i].a = s
          /\ \A d \in Descendants(tree, id) :
                /\ d \notin DOMAIN tree'
                /\ Unmounted(log', d) # {}
                /\ \A j \in Unmounted(log', d) \cup OwnEvents(log', d, tree[d]) :
                      \A i \in OwnEvents(log', id, tree[id]) : j < i ]_vars

\* an operation has unmounted a component after running a cleanup of it,
\* and a component below it after running a cleanup of that one
C16_Witness ==
    \E i, j, k, l \in DOMAIN log :
        /\ i < j /\ j < k /\ k < l
        /\ log[i].op = "cleanup" /\ log[j].op = "unmounted" /\ log[j].id = log[i].id
        /\ log[k].op = "cleanup" /\ log[l].op = "unmounted" /\ log[l].id = log[k].id
        /\ log[i].id # log[k].id
        /\ log[k].id < log[i].id

----------------------------------------------------------------------------
(* C17: when diff is given a node and an Element that differ in variant    *)
(* or in function identity, the node and all nodes below it are unmounted  *)
(* before anything of the new Element is mounted, the new Element is       *)
(* mounted as a new node in first-render mode, and the child list of the   *)
(* parent refers to the new node and no longer to the old one; the variant *)
(* and the function identity of a node that stays mounted never change.    *)

UnmountOps == {"unmounted", "cleanup", "remove"}
MountOps == {"render_first", "mount_as_child", "setup", "compute"}

C17_MismatchReplaces ==
    [][ ~ panicked' =>
        /\ \A id \in DOMAIN tree \cap DOMAIN tree' :
              /\ tree'[id].kind = tree[id].kind
              /\ tree'[id].f = tree[id].f
              /\ tree'[id].prim = tree[id].prim
        /\ \A i \in DOMAIN log' : log'[i].op = "diff_pair" =>
              LET old == log'[i].id
              IN  IF log'[i].a = log'[i].b
                  THEN /\ old \in DOMAIN tree'
                       /\ \A r \in DOMAIN log' :
                             ~ (log'[r].op = "replaced" /\ log'[r].id = old)
                  ELSE
                  /\ old \in DOMAIN tree
                  /\ old \notin DOMAIN tree'
                  /\ \A P \in DOMAIN tree' :
                        \A c \in DOMAIN ChildIds(tree'[P]) : ChildIds(tree'[P])[c] # old
                  /\ \E r \in DOMAIN log' :
                        /\ r > i
                        /\ log'[r].op = "replaced"
                        /\ log'[r].id = old
                        /\ LET new == log'[r].a
                           IN  /\ new # old
                               /\ new \notin DOMAIN tree
                               /\ new \in DOMAIN tree'
                               /\ <<tree'[new].kind, tree'[new].f>> = log'[i].b
                               /\ tree'[new].kind = "Component" =>
                                     /\ \E m \in i..r : /\ log'[m].op = "render_first"
                                                        /\ log'[m].id = new
                                     /\ \A m \in DOMAIN log' :
                                           ~ (log'[m].op = "render_update" /\ log'[m].id = new)
                               /\ \E P \in DOMAIN tree' :
                                     \E c \in DOMAIN ChildIds(tree'[P]) :
                                         ChildIds(tree'[P])[c] = new
                        /\ \A d \in {old} \cup Descendants(tree, old) :
                              /\ d \notin DOMAIN tree'
                              /\ \E u \in i..r : u \in Unmounted(log', d)
                              /\ \A u \in OwnEvents(log', d, tree[d]) : u \in i..r
                              /\ \A s \in DOMAIN tree[d].effects :
                                    tree[d].effects[s].f = "Destructor" =>
                                      \E u \in OwnEvents(log', d, tree[d]) : log'[u].a = s
                        /\ \A u, m \in i..r :
                              ( /\ log'[u].op \in UnmountOps
                                /\ log'[m].op \in MountOps ) => u < m ]_vars

\* a diff has replaced a component by a component of another function
C17_Witness ==
    /\ ~ panicked
    /\ \E i, r \in DOMAIN log :
          /\ i < r
          /\ log[i].op = "diff_pair"
          /\ log[i].a[1] = "Component" /\ log[i].b[1] = "Component"
          /\ log[i].a # log[i].b
          /\ log[r].op = "replaced" /\ log[r].id = log[i].id
          /\ log[r].a \in DOMAIN tree

----------------------------------------------------------------------------
(* C18: when a component mounted from a memoized Element is diffed against *)
(* a memoized Element of the same function whose props equal the stored    *)
(* ones, the operation renders neither the component nor a node below it,  *)
(* leaves these nodes (hook slots, child lists) and the history of their   *)
(* effects as they are, and makes no Bridge call on a handle of theirs.    *)

\* the handles of the primitive nodes among ids
Handles(t, ids) == {t[d].prim : d \in {x \in ids : t[x].kind = "Primitive"}}

\* the diffs of the log lg that find a memoized component of t and a
\* memoized Element of its function with its props
MemoHits(lg, t) ==
    {i \in DOMAIN lg :
        /\ lg[i].op = "diff_elem"
        /\ lg[i].id \in DOMAIN t
        /\ t[lg[i].id].kind = "Component"
        /\ t[lg[i].id].memo
        /\ lg[i].a = TRUE
        /\ lg[i].b = t[lg[i].id].props
        /\ lg[i - 1].b = <<"Component", t[lg[i].id].f>>}

C18_MemoSkipsSubtree ==
    [][ ~ panicked' =>
        \A i \in MemoHits(log', tree) :
            LET sub == {log'[i].id} \cup Descendants(tree, log'[i].id)
            IN  /\ \A d \in sub : d \in DOMAIN tree' /\ tree'[d] = tree[d]
                /\ \A p \in Handles(tree, sub) : p \in DOMAIN prims' /\ prims'[p] = prims[p]
                /\ \A k \in DOMAIN fx' : k[1] \in sub => k \in DOMAIN fx /\ fx'[k] = fx[k]
                /\ \A j \in DOMAIN log' :
                      /\ log'[j].op \in {"render_update", "render_first", "setup",
                                          "cleanup", "compute", "unmounted"}
                            => log'[j].id \notin sub
                      /\ log'[j].op \in BridgeOps
                            => log'[j].id \notin Handles(tree, sub)
                      /\ log'[j].op = "mount_as_child"
                            => log'[j].a \notin Handles(tree, sub) ]_vars

\* a re-render has diffed a memoized component that renders a primitive
\* against an Element with its props
C18_Witness ==
    /\ ~ panicked
    /\ \E i \in MemoHits(log, tree) :
          /\ Events("render_update") # {}
          /\ Handles(tree, Descendants(tree, log[i].id)) # {}

----------------------------------------------------------------------------
(* C19: whenever the library is idle, the child list the Bridge holds      *)
(* under each mounted primitive is the sequence of the primitives its      *)
(* current child Elements have produced, in the order of the Elements,     *)
(* the primitives of a component standing where the component stands.      *)
(* A memoized component that is not re-rendered leaves the cursor where it *)
(* is (internal.rs:473-475), and a dirty root is re-rendered from the      *)
(* cursor stored when it was mounted (internal.rs:290-293).                *)

RECURSIVE OrderedChildren(_, _, _, _)
\* the children of the node n that stand for the Elements els[i], els[i+1],
\* .., in the order of the Elements; u counts the unkeyed ones
OrderedChildren(n, els, i, u) ==
    IF i > Len(els) THEN <<>>
    ELSE IF els[i].key # None
    THEN (IF els[i].key \in DOMAIN n.keyed THEN <<n.keyed[els[i].key]>> ELSE <<>>)
         \o OrderedChildren(n, els, i + 1, u)
    ELSE (IF u <= Len(n.unkeyed) THEN <<n.unkeyed[u]>> ELSE <<>>)
         \o OrderedChildren(n, els, i + 1, u + 1)

RECURSIVE Flatten(_, _), FlattenEach(_, _, _)
\* the handles of the primitives the nodes ids[i], ids[i+1], .. stand for
FlattenEach(t, ids, i) ==
    IF i > Len(ids) THEN <<>> ELSE Flatten(t, ids[i]) \o FlattenEach(t, ids, i + 1)

\* the handle of a primitive node, the handles below a component node
Flatten(t, id) ==
    IF id \notin DOMAIN t THEN <<>>
    ELSE IF t[id].kind = "Primitive" THEN <<t[id].prim>>
    ELSE FlattenEach(t, OrderedChildren(t[id], t[id].out, 1, 1), 1)

C19_BridgeOrderIsElementOrder ==
    (pc = "idle" /\ ~ panicked) =>
        \A id \in DOMAIN tree :
            tree[id].kind = "Primitive" =>
                prims[tree[id].prim].children =
                    FlattenEach(tree, OrderedChildren(tree[id], tree[id].out, 1, 1), 1)

----------------------------------------------------------------------------
(* C20: the messages Setters send while a pump runs or between pumps are   *)
(* never lost or duplicated: as long as no step has panicked, every        *)
(* message sent so far either is in flight or has been drained and         *)
(* applied, exactly once, and the messages are applied in the order they   *)
(* were sent (so the messages of one producer are, whichever producer      *)
(* sent which).                                                            *)

\* the sequence numbers of the Setter messages in flight, in queue order
InFlight == SelectSeq([i \in DOMAIN queue |-> queue[i].seq], LAMBDA s : s # 0)

----------------------------------------------------------------------------
(* C21: on the first render of a component every effect setup is deferred  *)
(* until the children of the component and their descendants are mounted,  *)
(* and is then run: when the mount returns, every effect slot of every     *)
(* component it has mounted holds an active cleanup, none a pending setup, *)
(* each setup has run once, and the setups of a descendant have run before *)
(* those of its ancestor.                                                  *)

\* the events of the log lg by which the node id of t is mounted
MountEvents(lg, t, id) ==
    {k \in DOMAIN lg :
        \/ lg[k].op \in {"render_first", "setup", "compute"} /\ lg[k].id = id
        \/ /\ lg[k].op = "mount_as_child"
           /\ t[id].kind = "Primitive"
           /\ lg[k].id = t[id].prim}

C21_SetupAfterChildren ==
    [][ ~ panicked' =>
        \A i \in DOMAIN log' : log'[i].op = "render_first" =>
            LET id == log'[i].id
                setups == {j \in DOMAIN log' : log'[j].op = "setup" /\ log'[j].id = id}
            IN  /\ id \in DOMAIN tree'
                /\ id \notin DOMAIN tree
                /\ Len(tree'[id].effects) =
                      Len(EffectKeys(tree'[id].f, tree'[id].props,
                                     StateDefaults(tree'[id].f, tree'[id].props)))
                /\ \A s \in DOMAIN tree'[id].effects :
                      /\ tree'[id].effects[s].f = "Destructor"
                      /\ Cardinality({j \in setups : log'[j].a = s}) = 1
                      /\ FxOf(fx', <<id, s>>).ran = 1
                /\ \A j \in setups :
                      /\ i < j
                      /\ \A d \in Descendants(tree', id) :
                            /\ MountEvents(log', tree', d) # {}
                            /\ \A k \in MountEvents(log', tree', d) : k < j ]_vars

\* a mount has run the setup of a component and, before it, the setup of a
\* component below it
C21_Witness ==
    /\ ~ panicked
    /\ \E i, j \in Events("setup") :
          /\ i < j
          /\ log[j].id \in DOMAIN tree
          /\ log[i].id \in Descendants(tree, log[j].id)
          /\ \E k \in Events("render_first") : log[k].id = log[j].id

----------------------------------------------------------------------------
(* C22: when a pump starts while the changed predicate of the resource     *)
(* reports true, a flag message is sent for every mounted component that   *)
(* has called use_resource, and each of them that is still mounted when    *)
(* the pump returns has been re-rendered in that pump.                     *)
(* A flagged component below a root of the pass is left to the re-render   *)
(* of that root (internal.rs:259-280), which does not reach a memoized     *)
(* component with equal props (internal.rs:473-475).                       *)

\* the mounted components that call use_resource
ResourceUsers ==
    {id \in DOMAIN tree : /\ tree[id].kind = "Component"
                          /\ ResourceCalls(tree[id].f, tree[id].props) > 0}

C22_ResourceChangeRendered ==
    [][ /\ (pc = "idle" /\ pc' = "drain" /\ res_changed)
            => \A id \in ResourceUsers :
                  \E i \in DOMAIN queue' : /\ queue'[i].target_component = id
                                           /\ queue'[i].target_state = None
        /\ (pc = "render" /\ pc' = "idle" /\ res_changed)
            => \A id \in polled \cap ResourceUsers : id \in rendered ]_vars

----------------------------------------------------------------------------
(* C23: use_disconnected_state calls its initialiser and writes the        *)
(* property once per component instance, in the first render; no step of   *)
(* the library changes the property of a mounted instance afterwards, only *)
(* a write of the host does, so that a value the host has written is still *)
(* there after a re-render.                                                *)
C23_DisconnectedWrittenOnce ==
    [][ /\ \A i \in DOMAIN log' : log'[i].op = "disconnected_init" =>
              /\ log'[i].id \notin DOMAIN tree
              /\ \E k \in 1..(i - 1) : /\ log'[k].op = "render_first"
                                        /\ log'[k].id = log'[i].id
              /\ \A j \in DOMAIN log' :
                    (log'[j].op = "disconnected_init" /\ log'[j].id = log'[i].id)
                        => j = i
        /\ \A id \in DOMAIN tree \cap DOMAIN tree' :
              /\ id \in DOMAIN disconnected => id \in DOMAIN disconnected'
              /\ (id \in DOMAIN disconnected /\ disconnected'[id] # disconnected[id])
                    => /\ pc = "idle" /\ pc' = "idle"
                       /\ log' = <<>>
                       /\ tree' = tree /\ prims' = prims /\ queue' = queue ]_vars

\* an instance has been re-rendered while its property held a value the
\* host has written
C23_Witness ==
    /\ ~ panicked
    /\ \E i \in Events("render_update") :
          /\ log[i].id \in DOMAIN disconnected \cap DOMAIN tree
          /\ disconnected[log[i].id] #
                DisconnectedDefaults(tree[log[i].id].f, tree[log[i].id].props)

----------------------------------------------------------------------------
(* C24: the drain step applies a value-mutation message to its slot also   *)
(* when the target is in flagged; being flagged only keeps the node out of *)
(* roots.  A render of the node in the pass that follows is made with the  *)
(* mutated value: the output of every re-rendered node is the output of    *)
(* its function for the state the drain has left.                          *)
C24_FlaggedTargetMutated ==
    [][ /\ ( /\ pc = "drain" /\ queue # <<>> /\ queue' = Tail(queue)
             /\ ~ panicked'
             /\ Head(queue).target_component \in flagged )
            => /\ roots' = roots
               /\ flagged' = flagged
               /\ Head(queue).target_state # None =>
                     tree'[Head(queue).target_component].state[Head(queue).target_state]
                         = Head(queue).val
        /\ (pc = "render" /\ ~ panicked')
            => \A i \in DOMAIN log' : log'[i].op = "render_update" =>
                  LET id == log'[i].id
                  IN  /\ id \in DOMAIN tree /\ id \in DOMAIN tree'
                      /\ tree'[id].state = tree[id].state
                      /\ tree'[id].out =
                            Output(tree[id].f, tree[id].props, tree[id].state,
                                   LinkedValues(Snapshot, id,
                                       LinkedDefaults(tree[id].f, tree[id].props))) ]_vars

\* a drain pass has applied a message of a Setter of a node that was
\* flagged and that no other message targets
C24_Witness ==
    /\ ~ panicked
    /\ pc = "drain"
    /\ \E id \in (drained \cap flagged) \ rooted :
          /\ id \in DOMAIN tree
          /\ id \notin DOMAIN cmp_checks
          /\ \A k \in DOMAIN res_checks : res_checks[k] # id
          /\ tree[id].state # StateDefaults(tree[id].f, tree[id].props)

----------------------------------------------------------------------------
(* C25: the lengths of the state, memo and effect slot arrays of a mounted *)
(* component are those its first render has left: no step changes the      *)
(* length of an array of a component that stays mounted, and a slot that   *)
(* changes keeps its place (an effect or memo slot that is replaced holds  *)
(* the key of the call of its own index).                                  *)
C25_SlotArraysFixed ==
    [][ ~ panicked' =>
        /\ \A i \in DOMAIN log' : log'[i].op = "render_first" =>
              LET id == log'[i].id
                  f == tree'[id].f
                  props == tree'[id].props
              IN  /\ Len(tree'[id].state) = Len(StateDefaults(f, props))
                  /\ Len(tree'[id].effects) =
                        Len(EffectKeys(f, props, StateDefaults(f, props)))
                  /\ Len(tree'[id].memos) =
                        Len(MemoKeys(f, props, StateDefaults(f, props)))
        /\ \A id \in DOMAIN tree \cap DOMAIN tree' :
              tree[id].kind = "Component" =>
                 LET n == tree[id]
                     m == tree'[id]
                 IN  /\ Len(m.state) = Len(n.state)
                     /\ Len(m.memos) = Len(n.memos)
                     /\ Len(m.effects) = Len(n.effects)
                     /\ \A k \in DOMAIN n.effects :
                           m.effects[k] # n.effects[k] =>
                              /\ k \in DOMAIN EffectKeys(n.f, n.props, n.state)
                              /\ m.effects[k].eq_cache =
                                    EffectKeys(n.f, n.props, n.state)[k]
                     /\ \A k \in DOMAIN n.memos :
                           m.memos[k] # n.memos[k] =>
                              /\ k \in DOMAIN MemoKeys(n.f, n.props, n.state)
                              /\ m.memos[k].eq_cache =
                                    MemoKeys(n.f, n.props, n.state)[k] ]_vars

\* an update render has called its hooks another number of times than the
\* component has slots, and has ended
C25_Witness ==
    /\ ~ panicked
    /\ \E i \in Events("hook_calls") :
          /\ log[i].a # log[i].b
          /\ log[i].id \in DOMAIN tree
          /\ <<Len(tree[log[i].id].state), Len(tree[log[i].id].effects),
               Len(tree[log[i].id].memos)>> = log[i].b

----------------------------------------------------------------------------
(* C26: between the operations of Context the mounted tree is well formed: *)
(* every id in a child list is an entry of the tree, every mounted root is *)
(* an entry, every entry that is no mounted root occurs once in one child  *)
(* list, a mounted root in none, and every entry is reachable from a       *)
(* mounted root.  (The keys of the siblings of the fixtures are unique.)   *)

\* the places <<parent, index>> at which id occurs in a child list
Places(id) ==
    {pl \in UNION {{<<P, k>> : k \in DOMAIN ChildIds(tree[P])} : P \in DOMAIN tree} :
        ChildIds(tree[pl[1]])[pl[2]] = id}

C26_TreeWellFormed ==
    (pc = "idle" /\ ~ panicked) =>
        /\ mroots \subseteq DOMAIN tree
        /\ \A P \in DOMAIN tree : \A k \in DOMAIN ChildIds(tree[P]) :
              ChildIds(tree[P])[k] \in DOMAIN tree
        /\ \A id \in DOMAIN tree :
              Cardinality(Places(id)) = IF id \in mroots THEN 0 ELSE 1
        /\ DOMAIN tree = MountedNodes

\* a root is mounted and nodes of its tree have been unmounted and others
\* mounted by the re-renders of a pump
C26_Witness ==
    /\ pc = "idle" /\ ~ panicked
    /\ mroots # {}
    /\ applied # <<>>
    /\ Cardinality(DOMAIN tree) >= 4
    /\ nextId - 1 > Cardinality(DOMAIN tree) + Cardinality(DOMAIN prims)
    /\ \E id \in DOMAIN tree : id > 8

----------------------------------------------------------------------------
(* C27: after every drain step, in whatever order the messages were        *)
(* drained, roots is the set of the targeted nodes that lie below no other *)
(* targeted node: no root lies below another root, no root is flagged, and *)
(* every targeted node is a root or lies below one.                        *)
C27_RootsAreTopTargets ==
    (pc = "drain" /\ ~ panicked) =>
        /\ roots = {T \in Targets : ~ Covered(T)}
        /\ \A R, Q \in roots : R \notin Descendants(tree, Q)
        /\ roots \cap flagged = {}
        /\ \A T \in Targets :
              T \in roots \/ \E R \in roots : T \in Descendants(tree, R)

\* a drain pass has drained messages for three nodes that lie one below
\* the other
C27_Witness ==
    /\ pc = "drain" /\ ~ panicked
    /\ \E A, B, C \in Targets :
          /\ B \in Descendants(tree, A)
          /\ C \in Descendants(tree, B)
          /\ roots = {A}

----------------------------------------------------------------------------
(* C28: once a component node is unmounted no watch list refers to it:     *)
(* neither the list of the resource type nor the table of the node-level   *)
(* checks holds the id of a node that is not mounted, and no flag message  *)
(* in flight targets such a node.                                          *)
(* unmount removes the entry of the node from cmp_checks and leaves the    *)
(* list use_resource has pushed the node to as it is (internal.rs:428-436).*)
C28_NoWatchOfUnmounted ==
    ~ panicked =>
        /\ \A k \in DOMAIN res_checks : res_checks[k] \in DOMAIN tree
        /\ DOMAIN cmp_checks \subseteq DOMAIN tree
        /\ \A i \in DOMAIN queue :
              queue[i].target_state = None => queue[i].target_component \in DOMAIN tree

----------------------------------------------------------------------------
(* C29: every entity created while a subtree is mounted (the entity that   *)
(* is the id of a primitive or component node, the handle of a primitive)  *)
(* is destroyed when the subtree is unmounted: the World holds no entity   *)
(* of the library besides the ids of the mounted nodes and the handles of  *)
(* the mounted primitives.                                                 *)
(* unmount despawns the id of a component and, through Dom::remove, the    *)
(* handle of a primitive; the entity spawned as the id of a primitive node *)
(* (internal.rs:340) is despawned nowhere.                                 *)
C29_NoEntityLeft ==
    ~ panicked =>
        entities \subseteq DOMAIN tree \cup Handles(tree, DOMAIN tree)

----------------------------------------------------------------------------
(* C30: a call of process_messages that finds the channel empty and no     *)
(* check answering true does nothing: it returns at once, no function is   *)
(* rendered and no call is made on the Dom (the log of the step holds the  *)
(* note of the call and nothing else), and the tree, the slots of every    *)
(* component, the World and the lists of checks are what they were.        *)
C30_IdlePumpIsNoOp ==
    [][ ( /\ pc = "idle" /\ ~ panicked
          /\ queue = <<>>
          /\ Changed = {}
          /\ ~ res_changed
          /\ Events("process_messages")' # {} )
        => /\ pc' = "idle"
           /\ ~ panicked'
           /\ queue' = <<>>
           /\ log' = <<Ev("process_messages", None, 0, 0)>>
           /\ tree' = tree
           /\ prims' = prims
           /\ entities' = entities
           /\ fx' = fx
           /\ setters' = setters
           /\ linked' = linked
           /\ disconnected' = disconnected
           /\ cmp_checks' = cmp_checks
           /\ res_checks' = res_checks
           /\ mroots' = mroots ]_vars

\* process_messages has just returned from such a call, made while a tree
\* with a registered check was mounted
C30_Witness ==
    /\ pc = "idle" /\ ~ panicked
    /\ log = <<Ev("process_messages", None, 0, 0)>>
    /\ mroots # {}
    /\ DOMAIN cmp_checks # {}
    /\ queue = <<>>
    /\ Changed = {}
    /\ ~ res_changed

----------------------------------------------------------------------------
(* C31: process_messages terminates.  Its body is sequential code of an    *)
(* exclusive system: once called, each of its steps is taken as long as it *)
(* is enabled, which is what the fairness conditions of LiveSpec say.  The *)
(* messages sent while it runs are at most MaxSent.                        *)
(* For Drain and Render weak fairness is written out, []<>~ENABLED <<A>>   *)
(* \/ []<><<A>>, with the guard of the action for ENABLED: a Drain step    *)
(* shortens queue and a Render step roots, so the action is enabled        *)
(* exactly when its guard holds.                                           *)
(* A call that has entered the loop returns (or panics); and a second pass *)
(* of the loop is begun only when a message was sent after the drain of    *)
(* the pass before had found the channel empty: when nothing is sent while *)
(* the call runs, it returns after one drain-and-render pass.              *)
LiveSpec ==
    /\ Spec
    /\ \/ []<>(~ (pc = "drain" /\ ~ panicked /\ queue # <<>>))
       \/ []<><<Drain>>_vars
    /\ WF_vars(DrainEnd)
    /\ \/ []<>(~ (pc = "render" /\ ~ panicked /\ roots # {}))
       \/ []<><<\E r \in roots : Render(r)>>_vars
    /\ WF_vars(RenderEnd)

C31_PumpTerminates ==
    /\ [][ /\ (pc = "render" /\ pc' = "drain") => queue # <<>>
           /\ (pc = "render" /\ pc' # "render" /\ queue = <<>>) => pc' = "idle" ]_vars
    /\ (pc # "idle") ~> (pc = "idle" \/ panicked)

\* the loop is in its second pass: nodes have been re-rendered, and a
\* message sent meanwhile is being drained
C31_Witness ==
    /\ ~ panicked
    /\ pc = "drain"
    /\ rendered # {}
    /\ queue # <<>>

====
